---------------------------- MODULE Spec2Model ----------------------------
(***************************************************************************)
(* Sub-component editing engine of Coolapp (vertex / edge / face selection, *)
(* movement, weld and undo actions).                                        *)
(*                                                                          *)
(* Two variants of the engine are in the repository:                        *)
(*   - src/unnamed/part_000  (the "Deploy" engine: grouping cache,          *)
(*     weldFindCandidate / weldApplySnap / maybePromptWeld), modelled by    *)
(*     the actions of Spec;                                                 *)
(*   - src/editor-subcomponents.js (checkWeld / applyWeld), whose actions   *)
(*     carry the prefix ES.  SpecHost is made of the handlers of the host   *)
(*     src/editor-core.js on that engine, SpecES of the handlers and of     *)
(*     the functions of the engine called on their own.                     *)
(*                                                                          *)
(* Numbers.  Coordinates are multiples of PosUnit = 2^-UnitBits of a scene   *)
(* unit; a Vector3 is a triple of integers in that unit.  Every coordinate  *)
(* of the model has fewer than 24 significant bits, so the Float32Array of  *)
(* the position buffer stores it as it is, and a sum of a stored coordinate *)
(* and a delta is stored as it is as well: the value the code reads back is *)
(* the value the model holds.  A centroid (a mean) is the exact rational    *)
(* num / den.  The limits of the code (1e-4, 0.28, 0.01, 0.4, 1e-6) are     *)
(* decimal fractions, kept as [num, den]; none of them is a multiple of     *)
(* PosUnit, and a comparison of a length with one of them is made on exact  *)
(* integers (see SqOfRatio).  Math.round(x / 1e-4) is computed as the code  *)
(* computes it, a coordinate half-way between two integers included         *)
(* (see RoundEps).                                                          *)
(***************************************************************************)
EXTENDS Integers, Sequences, FiniteSets, TLC

VARIABLES
    pos,          \* pos[o][i]: obj.geometry.attributes.position of object o
    xform,        \* xform[o]: obj.matrixWorld (rotation, scale, translation)
    helpers,      \* helpers[o]: obj.userData.sub exists (ensureHelpers ran)
    flags,        \* state.flags
    selection,    \* state.selection
    baseline,     \* state.baseline: <<>> (null) or <<[id, positions]>>
    groupsCache,  \* state._groupsCache: <<>> (null) or <<[objId, map]>>
    acc,          \* state._accumulatedLocalDelta
    cur,          \* the mesh under edit (the caller's selectedObject)
    log,          \* the actions commit has returned (the caller's undo stack)
    ops,          \* number of calls so far (bounded)
    last,         \* the last call: [op, arg, ret]
    net,          \* net[o]: the moves of o since the last returned action: world-space sum d, number n
    committed,    \* positions at the last returned action / cancel / start
    trip,         \* tracker of move -> commit -> inverse sequences
    pick2,        \* tracker of two togglePick calls in immediate succession
    weldPending,  \* state.weldPending of src/editor-subcomponents.js: <<>> or <<weldInfo>>
    history,      \* history of src/editor-core.js: [past, future], two stacks of actions
    undoRun,      \* tracker of a run of undos followed by redos
    prompt,       \* the weld prompt ui.showWeldPrompt was handed and has not answered: <<>> or <<[obj, targetPosLocal]>>
    objects,      \* objects of src/editor-core.js: the ids of the meshes in the scene
    nextId,       \* nextId of src/editor-core.js
    isEditMode,   \* isEditMode of src/editor-core.js
    isDragging,   \* isDragging of src/editor-core.js (object gizmo)
    dragStarted   \* dragStarted of src/editor-core.js (object gizmo)

vars == <<pos, xform, helpers, flags, selection, baseline, groupsCache, acc,
          cur, log, ops, last, net, committed, trip, pick2, weldPending,
          history, undoRun, prompt, objects, nextId, isEditMode, isDragging,
          dragStarted>>

-----------------------------------------------------------------------------
(* Bounds of the model *)

\* PosUnit = 2^-UnitBits of a scene unit: the resolution of the coordinate
\* grid.  A coordinate below 2^(24 - UnitBits) = 8 scene units is a float of
\* 32 bits.
UnitBits == 21
\* One scene unit, in PosUnit.
UnitsPerOne == 2 ^ UnitBits
\* The meshes, the deltas and the hits of the model are laid out in multiples
\* of Grain PosUnit (0.69 of GROUP_EPS).  A weld snap moves the selection by
\* target - centre, and the centre, a mean of up to MaxSel centroids of up to
\* three vertices each, is a multiple of 1/12 of the unit its vertices lie
\* on: with Grain = 12 * 12 a snap, and a snap of what an earlier snap has
\* moved, stay on the grid.
Grain == 144
\* Largest number of entries the model lets the selection grow to.
MaxSel == 2
\* Largest number of calls in one behaviour.
MaxOps == 5
\* Largest id spawnPrimitive hands out in one behaviour.
MaxObjs == 3

(* Program constants, as decimal fractions of a scene unit *)

\* GROUP_EPS = 1e-4
GROUP_EPS == [num |-> 1, den |-> 10000]
\* x / GROUP_EPS of a coordinate of n PosUnit is n * EpsNum / EpsDen, in
\* lowest terms (10000 / 2^21 = 625 / 2^17).
EpsNum == GROUP_EPS.den \div 16
EpsDen == UnitsPerOne \div 16
\* DEFAULT_WELD_RADIUS = 0.28
DEFAULT_WELD_RADIUS == [num |-> 7, den |-> 25]
\* commit threshold: lengthSq() < 1e-12, a length below 1e-6 = 1 / (64 * CommitEpsDen)
CommitEpsDen == 15625

-----------------------------------------------------------------------------
(* Vector3 over the integer grid *)

Zero3 == <<0, 0, 0>>
VAdd(a, b) == <<a[1] + b[1], a[2] + b[2], a[3] + b[3]>>
VSub(a, b) == <<a[1] - b[1], a[2] - b[2], a[3] - b[3]>>
\* Faulty variant of VNeg: the delta is not negated.
VSame(a) == a
VNeg(a) == <<0 - a[1], 0 - a[2], 0 - a[3]>>
VScale(k, a) == <<k * a[1], k * a[2], k * a[3]>>
VDivisible(a, k) == a[1] % k = 0 /\ a[2] % k = 0 /\ a[3] % k = 0
VDiv(a, k) == <<a[1] \div k, a[2] \div k, a[3] \div k>>
Abs(n) == IF n < 0 THEN 0 - n ELSE n

(* Squares of coordinates exceed 32 bits: a natural number is kept as       *)
(* <<hi, lo>> = hi * BigBase + lo.                                          *)
BigHalf == 4096
BigBase == BigHalf * BigHalf
SqBig(a) ==
    LET ah == a \div BigHalf
        al == a % BigHalf
        m == 2 * ah * al
        lo0 == (m % BigHalf) * BigHalf + al * al
    IN  <<ah * ah + (m \div BigHalf) + (lo0 \div BigBase), lo0 % BigBase>>
AddBig(x, y) ==
    LET lo == x[2] + y[2]
    IN  <<x[1] + y[1] + (lo \div BigBase), lo % BigBase>>
LessBig(x, y) == x[1] < y[1] \/ (x[1] = y[1] /\ x[2] < y[2])
\* Vector3.lengthSq()
LengthSqBig(a) == AddBig(SqBig(Abs(a[1])), AddBig(SqBig(Abs(a[2])), SqBig(Abs(a[3]))))

(* A length against a limit that is no multiple of PosUnit.  The limit is   *)
(* m / k PosUnit (m, k > 0); its square is floor + a fraction below one,    *)
(* and whole says that the fraction is zero.  lsq is the square of the      *)
(* length, a whole number of PosUnit^2.                                     *)
SqOfRatio(m, k) ==
    LET q == m \div k
        r == m % k
        u == 2 * q * r + (r * r) \div k
    IN  [floor |-> AddBig(SqBig(q), <<0, u \div k>>),
         whole |-> (r * r) % k = 0 /\ u % k = 0]
\* length > m / k
LongerThan(lsq, m, k) == LessBig(SqOfRatio(m, k).floor, lsq)
\* length < m / k
ShorterThan(lsq, m, k) ==
    \/ LessBig(lsq, SqOfRatio(m, k).floor)
    \/ (lsq = SqOfRatio(m, k).floor /\ ~SqOfRatio(m, k).whole)

-----------------------------------------------------------------------------
(* The scene: meshes and their world transforms *)

\* The ids a mesh can carry (mesh.userData.id = nextId++).  pos[o], xform[o]
\* and helpers[o] of an id not yet handed out are those the mesh has when
\* spawnPrimitive creates it; a mesh taken out of the scene keeps its own.
Objs == 1 .. MaxObjs
\* The meshes in the scene at the start.
StartObjects == {1, 2}
\* selectedObject = null: no mesh of the scene is selected
NoObj == 0
NumVerts == 6
Idx == 0 .. (NumVerts - 1)
\* A tenth of a scene unit (0.1), to the grain below.
Step == Grain * ((UnitsPerOne \div 10) \div Grain)
\* The largest multiple of Grain within the weld radius: one grain farther
\* lies beyond it.
Reach == Grain * ((DEFAULT_WELD_RADIUS.num * UnitsPerOne) \div (DEFAULT_WELD_RADIUS.den * Grain))

\* Positions at construction.  Vertices 0 and 3 are duplicates of one point,
\* so are 2 and 4; vertex 1 lies midway between the two pairs; vertex 5 is
\* as far from vertices 0 and 3 as the weld radius reaches on the grid, and
\* farther from the others.
Mesh == [i \in Idx |->
           CASE i \in {0, 3} -> <<0, 0, 0>>
             [] i = 1 -> <<Step, 0, 0>>
             [] i \in {2, 4} -> <<2 * Step, 0, 0>>
             [] OTHER -> <<0, Reach, 0>>]

\* matrixWorld = translation * rotation about Z (quarter turns) * uniform scale
Identity == [rot |-> 0, scale |-> 1, t |-> Zero3]
Turned == [rot |-> 1, scale |-> 2, t |-> <<Step, 0, 0 - Step>>]
\* spawnPrimitive: mesh.position.set(0, 1, 0)
Spawned == [rot |-> 0, scale |-> 1, t |-> <<0, UnitsPerOne, 0>>]
\* The transforms at the start: mesh 1 has been turned, scaled and moved and
\* mesh 2 moved to the origin with the object gizmo.
StartXform ==
    [o \in Objs |-> IF o = 1 THEN Turned ELSE IF o = 2 THEN Identity ELSE Spawned]

RECURSIVE Rot(_, _)
Rot(r, v) == IF r = 0 THEN v ELSE Rot(r - 1, <<0 - v[2], v[1], v[3]>>)
RotInv(r, v) == Rot((4 - r) % 4, v)
\* The 3x3 part of matrixWorld applied to a direction.
LinToWorld(m, d) == VScale(m.scale, Rot(m.rot, d))
\* obj.localToWorld(p)
localToWorld(m, p) == VAdd(LinToWorld(m, p), m.t)
\* obj.worldToLocal(p)
worldToLocal(m, p) == VDiv(RotInv(m.rot, VSub(p, m.t)), m.scale)

\* Deltas the manipulation handle reports, in local terms; the world delta
\* handed to the engine is their image under the mesh's transform.
LocalDeltas == {<<Step, 0, 0>>, <<0 - Step, 0, 0>>, <<0, Grain, 0>>}
WorldDeltas(m) == {LinToWorld(m, d) : d \in LocalDeltas}
\* World points an edge-helper hit can report.
EdgeHitsLocal == {<<Step + Grain, Grain, 0>>}
EdgeHits(m) == {localToWorld(m, q) : q \in EdgeHitsLocal}

\* A ray: what raycaster.intersectObject reports for the vertex points
\* (hits[0].index), the edge lines (hits[0].point) and the mesh
\* (hits[0].face: a face number, or -1 for a hit that carries no face).
\* Each is <<>> for no hit.
Ray(v, e, f) == [v |-> v, e |-> e, f |-> f]
\* The vertices and faces the rays of the model hit.  The geometry is
\* non-indexed (toNonIndexed): face k is the triple 3k, 3k+1, 3k+2.
PickedVerts == {0, 1, 2, 5}
PickedFaces == {0, 1, -1}
Rays(m) ==
    {Ray(<<i>>, <<>>, <<>>) : i \in PickedVerts}
    \cup {Ray(<<>>, <<q>>, <<>>) : q \in EdgeHits(m)}
    \cup {Ray(<<>>, <<>>, <<k>>) : k \in PickedFaces}
    \cup {Ray(<<>>, <<>>, <<>>)}
    \cup {Ray(<<1>>, <<q>>, <<0>>) : q \in EdgeHits(m)}

-----------------------------------------------------------------------------
(* GROUPS (MERGE) *)

\* Math.round(n * num / den): the nearest integer, a half rounded up (towards
\* +Infinity).  \div rounds down and % is never negative, whatever the sign
\* of n.
RoundBy(n, num, den) ==
    (n \div den) * num + (2 * (n % den) * num + den) \div (2 * den)
\* Faulty variant of RoundEps: Math.floor in place of Math.round.
FloorEps(n) == (n \div EpsDen) * EpsNum + ((n % EpsDen) * EpsNum) \div EpsDen
\* Faulty variant of RoundEps: a quantization step of twice GROUP_EPS.
RoundTwoEps(n) == RoundBy(n, EpsNum, 2 * EpsDen)
\* Math.round(x / GROUP_EPS).  The quotient of the code is a double; the
\* coordinates that lie half-way between two cells are the odd multiples of
\* 1/32 of a scene unit, and for them the double is the half-way number
\* itself, which Math.round takes up.
RoundEps(n) == RoundBy(n, EpsNum, EpsDen)
\* The grid point nearest to the centre c * GROUP_EPS of cell c.
CellCentre(c) == RoundBy(c, EpsDen, EpsNum)
\* `${qx}_${qy}_${qz}`
keyForPos(p) == <<RoundEps(p[1]), RoundEps(p[2]), RoundEps(p[3])>>

\* A Map in insertion order: a sequence of [k, indices].
MapFind(map, k) ==
    IF \E j \in 1 .. Len(map) : map[j].k = k
    THEN CHOOSE j \in 1 .. Len(map) : map[j].k = k
    ELSE 0
\* map.get(k), <<>> for undefined
MapGet(map, k) == IF MapFind(map, k) = 0 THEN <<>> ELSE map[MapFind(map, k)].indices

RECURSIVE BuildFrom(_, _, _)
BuildFrom(p, i, map) ==
    IF i = NumVerts THEN map
    ELSE LET k == keyForPos(p[i])
             j == MapFind(map, k)
         IN  BuildFrom(p, i + 1,
                 IF j = 0 THEN Append(map, [k |-> k, indices |-> <<i>>])
                 ELSE [map EXCEPT ![j].indices = Append(@, i)])
\* Faulty variant of buildVertexGroups: map.set(k, [i]) for every index, so
\* that a key keeps only the last index that has it.
OverwriteGroups(p) ==
    LET firsts == SelectSeq([j \in 1 .. NumVerts |-> j - 1],
                            LAMBDA i : \A h \in 0 .. (i - 1) :
                                          keyForPos(p[h]) # keyForPos(p[i]))
    IN  [g \in 1 .. Len(firsts) |->
            [k |-> keyForPos(p[firsts[g]]),
             indices |-> <<CHOOSE i \in Idx :
                             /\ keyForPos(p[i]) = keyForPos(p[firsts[g]])
                             /\ \A h \in Idx : keyForPos(p[h]) = keyForPos(p[i])
                                                  => h <= i>>]]
\* buildVertexGroups(obj): the map built from the current positions.
buildVertexGroups(p) == BuildFrom(p, 0, <<>>)

CacheHit(cache, o) == cache # <<>> /\ cache[1].objId = o
\* getGroups(obj): the map it returns ...
getGroups(cache, p, o) == IF CacheHit(cache, o) THEN cache[1].map ELSE buildVertexGroups(p)
\* ... and the cache it leaves behind.
CacheAfterGet(cache, p, o) ==
    IF CacheHit(cache, o) THEN cache ELSE <<[objId |-> o, map |-> buildVertexGroups(p)]>>

\* Faulty variant of getGroupForVertexIndex: the explode flag is not looked at.
GroupByPosition(fl, cache, p, o, idx) ==
    LET k == keyForPos(p[idx])
        got == MapGet(getGroups(cache, p, o), k)
    IN  [key |-> [tag |-> "g", ints |-> k],
         indices |-> IF got = <<>> THEN <<idx>> ELSE got]
\* getGroupForVertexIndex(obj, idx)
getGroupForVertexIndex(fl, cache, p, o, idx) ==
    IF fl.explode THEN [key |-> [tag |-> "i", ints |-> <<idx>>], indices |-> <<idx>>]
    ELSE LET k == keyForPos(p[idx])
             got == MapGet(getGroups(cache, p, o), k)
         IN  [key |-> [tag |-> "g", ints |-> k],
              indices |-> IF got = <<>> THEN <<idx>> ELSE got]
\* the cache after getGroupForVertexIndex
CacheAfterGroupFor(fl, cache, p, o) ==
    IF fl.explode THEN cache ELSE CacheAfterGet(cache, p, o)

-----------------------------------------------------------------------------
(* SELECTION *)

\* Faulty variant of hasSelection: an empty list counts as a selection.
AlwaysSelected(sel) == TRUE
hasSelection(sel) == Len(sel) > 0

RECURSIVE Insert(_, _)
Insert(x, s) ==
    IF s = <<>> THEN <<x>>
    ELSE IF x <= Head(s) THEN <<x>> \o s
    ELSE <<Head(s)>> \o Insert(x, Tail(s))
RECURSIVE SortAsc(_)
\* indices.slice().sort((a,b)=>a-b)
SortAsc(s) == IF s = <<>> THEN <<>> ELSE Insert(Head(s), SortAsc(Tail(s)))

\* makeSelectionKey(kind, key, indices): `v:${key}` or `${kind}:${sig}`
makeSelectionKey(kind, key, indices) ==
    IF kind = "v" THEN [kind |-> "v", tag |-> key.tag, ints |-> key.ints]
    ELSE [kind |-> kind, tag |-> "s", ints |-> SortAsc(indices)]

\* Faulty variant of selectionIndexByKey: the key is never found.
NeverFound(sel, selKey) == 0
\* state.selection.findIndex(s => s.key === selKey), 0 for -1
selectionIndexByKey(sel, selKey) ==
    IF \E j \in 1 .. Len(sel) : sel[j].key = selKey
    THEN CHOOSE j \in 1 .. Len(sel) :
             sel[j].key = selKey /\ \A h \in 1 .. (j - 1) : sel[h].key # selKey
    ELSE 0

RECURSIVE SumAt(_, _)
SumAt(p, s) == IF s = <<>> THEN Zero3 ELSE VAdd(p[Head(s)], SumAt(p, Tail(s)))
\* centroidLocalFromIndices(obj, indices): the mean, as num / den
centroidLocalFromIndices(p, indices) ==
    [num |-> SumAt(p, indices), den |-> IF Len(indices) > 1 THEN Len(indices) ELSE 1]
\* centroidLocal.add(dLocal)
CentroidAdd(c, d) == [num |-> VAdd(c.num, VScale(c.den, d)), den |-> c.den]

RemoveAt(s, j) == SubSeq(s, 1, j - 1) \o SubSeq(s, j + 1, Len(s))
\* Faulty variant of ToggleEntry: the entry is pushed even if its key is there.
AlwaysPush(sel, kind, selKey, indices, centroid) ==
    Append(sel, [kind |-> kind, key |-> selKey, indices |-> indices,
                 centroidLocal |-> centroid])
\* state.selection.splice(existing, 1) or state.selection.push(entry)
ToggleEntry(sel, kind, selKey, indices, centroid) ==
    IF selectionIndexByKey(sel, selKey) > 0
    THEN RemoveAt(sel, selectionIndexByKey(sel, selKey))
    ELSE Append(sel, [kind |-> kind, key |-> selKey, indices |-> indices,
                      centroidLocal |-> centroid])

Range(s) == {s[j] : j \in 1 .. Len(s)}
\* the Set of every index some entry holds
SelectedSet(sel) == UNION {Range(sel[j].indices) : j \in 1 .. Len(sel)}
KeySet(sel) == {sel[j].key : j \in 1 .. Len(sel)}

RECURSIVE Dedupe(_, _)
Dedupe(s, seen) ==
    IF s = <<>> THEN <<>>
    ELSE IF Head(s) \in seen THEN Dedupe(Tail(s), seen)
    ELSE <<Head(s)>> \o Dedupe(Tail(s), seen \cup {Head(s)})
RECURSIVE Flatten(_)
Flatten(sel) == IF sel = <<>> THEN <<>> ELSE Head(sel).indices \o Flatten(Tail(sel))
\* Faulty variant of getUniqueSelectedIndices: repeated indices are kept.
AllSelectedIndices(sel) == Flatten(sel)
\* getUniqueSelectedIndices(): Array.from(set), in insertion order
getUniqueSelectedIndices(sel) == Dedupe(Flatten(sel), {})

(* EDGE PICK *)

DistSqBig(a, b) == LengthSqBig(VSub(a, b))
\* the first index, outside excl, at the least distance from q
Nearest(p, q, excl) ==
    CHOOSE i \in Idx \ excl :
        \A j \in Idx \ excl :
            /\ ~LessBig(DistSqBig(p[j], q), DistSqBig(p[i], q))
            /\ (DistSqBig(p[j], q) = DistSqBig(p[i], q) => i <= j)
\* approximateEdgeByNearestSegment(obj, worldPoint): <<>> for null
approximateEdgeByNearestSegment(p, m, worldPoint) ==
    LET localP == worldToLocal(m, worldPoint)
        best == Nearest(p, localP, {})
    IN  IF Idx = {} \/ Idx \ {best} = {} THEN <<>>
        ELSE <<best, Nearest(p, localP, {best})>>

(* TOGGLE PICK *)

\* setBaselineFromCurrent(obj)
Snapshot(p, o) == <<[id |-> o, positions |-> p[o]]>>
\* "baseline si empieza a editar"
BaselineOnPick(base, p, o) ==
    IF base = <<>> \/ base[1].id # o THEN Snapshot(p, o) ELSE base

\* togglePick(raycaster, obj): the selection and cache it leaves and what it
\* returns.
togglePickVertex(fl, sel, cache, p, o, idx) ==
    LET grp == getGroupForVertexIndex(fl, cache, p, o, idx)
        selKey == makeSelectionKey("v", grp.key, grp.indices)
    IN  [sel |-> ToggleEntry(sel, "v", selKey, grp.indices,
                             centroidLocalFromIndices(p, grp.indices)),
         cache |-> CacheAfterGroupFor(fl, cache, p, o),
         ret |-> TRUE]
togglePickEdge(sel, cache, p, m, point) ==
    LET pair == approximateEdgeByNearestSegment(p, m, point)
    IN  IF pair = <<>> THEN [sel |-> sel, cache |-> cache, ret |-> FALSE]
        ELSE [sel |-> ToggleEntry(sel, "e",
                          makeSelectionKey("e", [tag |-> "edge", ints |-> <<>>], pair),
                          pair, centroidLocalFromIndices(p, pair)),
              cache |-> cache, ret |-> TRUE]
\* Faulty variant of togglePickFace: a hit that carries no face is reported
\* as a change.
FaceHitAlwaysChanges(sel, cache, p, f) ==
    IF f < 0 THEN [sel |-> sel, cache |-> cache, ret |-> TRUE]
    ELSE LET tri == <<3 * f, 3 * f + 1, 3 * f + 2>>
         IN  [sel |-> ToggleEntry(sel, "f",
                          makeSelectionKey("f", [tag |-> "face", ints |-> <<>>], tri),
                          tri, centroidLocalFromIndices(p, tri)),
              cache |-> cache, ret |-> TRUE]
togglePickFace(sel, cache, p, f) ==
    IF f < 0 THEN [sel |-> sel, cache |-> cache, ret |-> FALSE]
    ELSE LET tri == <<3 * f, 3 * f + 1, 3 * f + 2>>
         IN  [sel |-> ToggleEntry(sel, "f",
                          makeSelectionKey("f", [tag |-> "face", ints |-> <<>>], tri),
                          tri, centroidLocalFromIndices(p, tri)),
              cache |-> cache, ret |-> TRUE]
\* Faulty variant of togglePickPositions: a pick moves every vertex onto the
\* quantization grid.
PickSnapsToGrid(pO) ==
    [i \in Idx |-> <<CellCentre(RoundEps(pO[i][1])), CellCentre(RoundEps(pO[i][2])),
                     CellCentre(RoundEps(pO[i][3]))>>]
\* togglePick(raycaster, obj): the positions of the mesh it leaves.  The
\* helper points get a copy of the buffer (new Float32Array(posAttr.array)),
\* the groups, keys and centroids are computed by reading it, and
\* recolorSelection writes colours only.
togglePickPositions(pO) == pO
\* Faulty variant of togglePick: the flags verts, edges and faces are not
\* looked at.
PickAnyKind(fl, sel, cache, p, m, o, ray) ==
    IF ray.v # <<>> THEN togglePickVertex(fl, sel, cache, p, o, ray.v[1])
    ELSE IF ray.e # <<>> THEN togglePickEdge(sel, cache, p, m, ray.e[1])
    ELSE IF ray.f # <<>> THEN togglePickFace(sel, cache, p, ray.f[1])
    ELSE [sel |-> sel, cache |-> cache, ret |-> FALSE]
togglePick(fl, sel, cache, p, m, o, ray) ==
    IF fl.verts /\ ray.v # <<>> THEN togglePickVertex(fl, sel, cache, p, o, ray.v[1])
    ELSE IF fl.edges /\ ray.e # <<>> THEN togglePickEdge(sel, cache, p, m, ray.e[1])
    ELSE IF fl.faces /\ ray.f # <<>> THEN togglePickFace(sel, cache, p, ray.f[1])
    ELSE [sel |-> sel, cache |-> cache, ret |-> FALSE]

-----------------------------------------------------------------------------
(* APPLY MOVEMENT *)

\* Faulty variant of worldDeltaToLocalDelta: the whole inverse matrix is
\* applied, translation included (the delta is treated as a point).
DeltaAsPoint(m, worldDelta) == worldToLocal(m, worldDelta)
\* worldDeltaToLocalDelta(obj, worldDelta): the inverse of the 3x3 part of
\* matrixWorld, without translation
worldDeltaToLocalDelta(m, worldDelta) == VDiv(RotInv(m.rot, worldDelta), m.scale)

\* Faulty variant of MoveUnique: only the indices of the first entry move.
MoveFirstEntry(pO, sel, d) ==
    [i \in Idx |-> IF i \in Range(sel[1].indices) THEN VAdd(pO[i], d) ELSE pO[i]]
\* unique.forEach(i => pos.setXYZ(i, x + d.x, y + d.y, z + d.z))
MoveUnique(pO, sel, d) ==
    [i \in Idx |-> IF i \in SelectedSet(sel) THEN VAdd(pO[i], d) ELSE pO[i]]
\* Faulty variant of MoveCentroids: only the first entry's centroid follows.
MoveFirstCentroid(sel, d) ==
    [j \in 1 .. Len(sel) |->
        IF j = 1 THEN [sel[j] EXCEPT !.centroidLocal = CentroidAdd(@, d)] ELSE sel[j]]
\* state.selection.forEach(s => s.centroidLocal.add(dLocal))
MoveCentroids(sel, d) ==
    [j \in 1 .. Len(sel) |-> [sel[j] EXCEPT !.centroidLocal = CentroidAdd(@, d)]]

\* Faulty variant of CacheAfterRefresh: the cache is never invalidated.
KeepCache(cache, hasSub, o) == cache
\* refreshHelpers(obj): "invalidate groups cache (positions changed)"
CacheAfterRefresh(cache, hasSub, o) ==
    IF hasSub /\ cache # <<>> /\ cache[1].objId = o THEN <<>> ELSE cache

(* WELD *)

RECURSIVE SumCentroids(_)
\* the sum of the entries' centroids, as num / den
SumCentroids(sel) ==
    IF sel = <<>> THEN [num |-> Zero3, den |-> 1]
    ELSE LET c == Head(sel).centroidLocal
             r == SumCentroids(Tail(sel))
         IN  [num |-> VAdd(VScale(r.den, c.num), VScale(c.den, r.num)),
              den |-> c.den * r.den]
\* selCenter: the mean of the entries' centroids, as num / den
SelCenter(sel) ==
    LET s == SumCentroids(sel)
    IN  [num |-> s.num, den |-> s.den * (IF Len(sel) > 1 THEN Len(sel) ELSE 1)]

\* p.distanceTo(c), squared and scaled by c.den^2
DistToCenterSq(p0, c) == LengthSqBig(VSub(VScale(c.den, p0), c.num))

\* the groups of the map that hold no selected index
FreeGroups(map, sel) ==
    {g \in 1 .. Len(map) : Range(map[g].indices) \cap SelectedSet(sel) = {}}

\* Faulty variant of ScanGroups: the first group without a selected index is
\* taken, whatever its distance.
FirstFreeGroup(map, j, p, selSet, c, best) ==
    LET free == {g \in 1 .. Len(map) : Range(map[g].indices) \cap selSet = {}}
    IN  IF free = {} THEN <<>>
        ELSE LET g == CHOOSE g \in free : \A h \in free : g <= h
             IN  <<[k |-> map[g].k, p |-> p[map[g].indices[1]],
                    dsq |-> DistToCenterSq(p[map[g].indices[1]], c)]>>

RECURSIVE ScanGroups(_, _, _, _, _, _)
\* the loop over groups.entries(): best is <<>> or <<[k, p, dsq]>>
ScanGroups(map, j, p, selSet, c, best) ==
    IF j > Len(map) THEN best
    ELSE IF Range(map[j].indices) \cap selSet # {}
         THEN ScanGroups(map, j + 1, p, selSet, c, best)
         ELSE LET p0 == p[map[j].indices[1]]
                  d == DistToCenterSq(p0, c)
              IN  IF best = <<>> \/ LessBig(d, best[1].dsq)
                  THEN ScanGroups(map, j + 1, p, selSet, c,
                                  <<[k |-> map[j].k, p |-> p0, dsq |-> d]>>)
                  ELSE ScanGroups(map, j + 1, p, selSet, c, best)

\* length > lim, for a length of sqrt(lsq) / scale PosUnit and a limit lim
\* = [num, den] of a scene unit
LongerThanLimit(lsq, scale, lim) == LongerThan(lsq, lim.num * UnitsPerOne * scale, lim.den)
\* length < lim
ShorterThanLimit(lsq, scale, lim) == ShorterThan(lsq, lim.num * UnitsPerOne * scale, lim.den)
\* Faulty variant of BeyondRadius: the limit is the radius and one grain more.
BeyondWiderRadius(best, c, radius) ==
    LongerThan(best.dsq, (radius.num * UnitsPerOne + radius.den * Grain) * c.den,
               radius.den)
\* bestDist > radius; best is [k, p, dsq], dsq the square of the distance to
\* the centre c scaled by c.den^2
BeyondRadius(best, c, radius) == LongerThanLimit(best.dsq, c.den, radius)
\* Faulty variant of weldFindCandidate: the explode flag is not looked at.
FindInExplode(fl, sel, cache, p, o, radius) ==
    IF ~hasSelection(sel) THEN <<>>
    ELSE LET c == SelCenter(sel)
             best == ScanGroups(getGroups(cache, p, o), 1, p,
                                Range(getUniqueSelectedIndices(sel)), c, <<>>)
         IN  IF best = <<>> THEN <<>>
             ELSE IF BeyondRadius(best[1], c, radius) THEN <<>>
             ELSE <<[targetKey |-> best[1].k, targetPosLocal |-> best[1].p,
                     dist |-> [sq |-> best[1].dsq, den |-> c.den]]>>
\* Faulty variant of weldFindCandidate: no candidate is ever found.
NoCandidate(fl, sel, cache, p, o, radius) == <<>>
\* weldFindCandidate(obj, radius): <<>> for null, or <<candidate>>; dist is
\* kept as its square over den^2
weldFindCandidate(fl, sel, cache, p, o, radius) ==
    IF ~hasSelection(sel) \/ fl.explode THEN <<>>
    ELSE LET c == SelCenter(sel)
             best == ScanGroups(getGroups(cache, p, o), 1, p,
                                Range(getUniqueSelectedIndices(sel)), c, <<>>)
         IN  IF best = <<>> THEN <<>>
             ELSE IF BeyondRadius(best[1], c, radius) THEN <<>>
             ELSE <<[targetKey |-> best[1].k, targetPosLocal |-> best[1].p,
                     dist |-> [sq |-> best[1].dsq, den |-> c.den]]>>
\* the cache after weldFindCandidate
CacheAfterFind(fl, sel, cache, p, o) ==
    IF ~hasSelection(sel) \/ fl.explode THEN cache ELSE CacheAfterGet(cache, p, o)

\* weldApplySnap: dLocal = targetPosLocal - selCenter, as num / den
SnapDelta(sel, target) ==
    LET c == SelCenter(sel)
    IN  [num |-> VSub(VScale(c.den, target), c.num), den |-> c.den]

(* COMMIT / UNDO ACTION *)

\* Faulty variant of BelowCommitEps: no delta is below the threshold.
NeverBelow(a) == FALSE
\* state._accumulatedLocalDelta.lengthSq() < 1e-12
BelowCommitEps(a) == ShorterThan(LengthSqBig(a), UnitsPerOne \div 64, CommitEpsDen)

\* commitSelectionDeltaAsAction(objectId): <<>> for null, or <<action>>
commitSelectionDeltaAsAction(sel, a, objectId) ==
    IF objectId = 0 THEN <<>>
    ELSE IF ~hasSelection(sel) THEN <<>>
    ELSE IF BelowCommitEps(a) THEN <<>>
    ELSE <<[type |-> "subEdit", id |-> objectId,
            indices |-> getUniqueSelectedIndices(sel), delta |-> a]>>

\* Faulty variant of applyDeltaLocalToIndices: every vertex of the mesh moves.
ApplyToAll(pO, indices, d) == [i \in Idx |-> VAdd(pO[i], d)]
RECURSIVE applyDeltaLocalToIndices(_, _, _)
\* applyDeltaLocalToIndices(obj, indices, dLocal): the positions it leaves
applyDeltaLocalToIndices(pO, indices, d) ==
    IF indices = <<>> THEN pO
    ELSE applyDeltaLocalToIndices([pO EXCEPT ![Head(indices)] = VAdd(@, d)],
                                  Tail(indices), d)

\* findObjectById(id): objects.find(o => o.userData.id === id) on the objects
\* array objs, <<>> if there is none
findObjectById(objs, id) == IF id \in objs THEN <<id>> ELSE <<>>

-----------------------------------------------------------------------------
(* The engine of src/unnamed/part_000 as a state machine.  The caller edits  *)
(* one mesh at a time (cur) and clears the selection when it turns to        *)
(* another one.                                                              *)

FlagNames == {"verts", "edges", "faces", "explode"}
TripIdle ==
    [phase |-> "idle", pos0 |-> <<>>, sel0 |-> <<>>, acc0 |-> <<>>,
     clean |-> FALSE, act |-> <<>>]
PickNone == [phase |-> "none", ray |-> <<>>, keys0 |-> {}]
Call(op, arg, ret) == [op |-> op, arg |-> arg, ret |-> ret]
NoMoves == [o \in Objs |-> [d |-> Zero3, n |-> 0]]
\* history at the start: the two meshes of the scene were added with
\* spawnPrimitive, then mesh 2 and mesh 1 moved with the object gizmo:
\* addToHistory({ type: 'create', ... }) twice, then
\* addToHistory({ type: 'transform', ... }) twice
StartHistory ==
    [past |-> <<[type |-> "create", id |-> 1], [type |-> "create", id |-> 2],
                [type |-> "transform", id |-> 2], [type |-> "transform", id |-> 1]>>,
     future |-> <<>>]
\* undoRun: k undos not yet redone out of n, in a run that began from positions
\* pos0 and stacks hist0; at is the call count when the run was last extended
RunIdle ==
    [phase |-> "idle", k |-> 0, n |-> 0, at |-> 0, pos0 |-> <<>>, hist0 |-> <<>>]

\* The state the scene is in when the steps begin; edit is isEditMode and
\* calls the number the count of calls starts at.
Start(edit, calls) ==
    /\ objects = StartObjects
    /\ pos = [o \in Objs |-> Mesh]
    /\ xform = StartXform
    /\ helpers = [o \in Objs |-> edit /\ o = 1]
    /\ flags = [verts |-> TRUE, edges |-> FALSE, faces |-> FALSE, explode |-> FALSE]
    /\ selection = <<>>
    /\ baseline = <<>>
    /\ groupsCache = <<>>
    /\ acc = Zero3
    /\ cur = 1
    /\ log = <<>>
    /\ ops = calls
    /\ last = IF edit THEN Call("enterEdit", <<>>, <<>>) ELSE Call("init", <<>>, <<>>)
    /\ net = NoMoves
    /\ committed = pos
    /\ trip = TripIdle
    /\ pick2 = PickNone
    /\ weldPending = <<>>
    /\ history = StartHistory
    /\ undoRun = RunIdle
    /\ prompt = <<>>
    /\ nextId = Cardinality(StartObjects) + 1
    /\ isEditMode = edit
    /\ isDragging = FALSE
    /\ dragStarted = FALSE
\* the scene with mesh 1 selected, outside edit mode ...
Init == Start(FALSE, 0)
\* ... and one step later, after the data-mode 'select' button was pressed:
\* isEditMode = true and SUB.applySubVisibility(selectedObject)
InitEdit == Start(TRUE, 1)

\* setFlags(patch), with the patch of one of the four toggle buttons
SetFlags(f) ==
    /\ flags' = [flags EXCEPT ![f] = ~@]
    /\ ops < MaxOps
    /\ ops' = ops + 1
    /\ last' = Call("setFlags", <<f>>, <<>>)
    /\ trip' = TripIdle
    /\ pick2' = PickNone
    /\ UNCHANGED <<objects, nextId, isEditMode, isDragging, dragStarted, pos, xform, helpers, selection, baseline, groupsCache, acc,
                   cur, log, net, committed, weldPending, history, undoRun, prompt>>

\* setBaselineFromCurrent(obj)
SetBaselineFromCurrent ==
    /\ cur # NoObj
    /\ baseline' = Snapshot(pos, cur)
    /\ ops < MaxOps
    /\ ops' = ops + 1
    /\ last' = Call("setBaselineFromCurrent", <<cur>>, <<>>)
    /\ trip' = TripIdle
    /\ pick2' = PickNone
    /\ UNCHANGED <<objects, nextId, isEditMode, isDragging, dragStarted, pos, xform, helpers, flags, selection, groupsCache, acc,
                   cur, log, net, committed, weldPending, history, undoRun, prompt>>

\* Faulty variant of cancelToBaseline: the buffer is left as it is.
NoCancel(p, base, o) == p
\* cancelToBaseline(obj): the positions it leaves; pos.array.set(baseline.positions)
cancelToBaseline(p, base, o) ==
    IF base = <<>> \/ base[1].id # o THEN p
    ELSE [p EXCEPT ![o] = base[1].positions]

\* cancelToBaseline(obj)
CancelToBaseline ==
    /\ baseline # <<>> /\ baseline[1].id = cur
    /\ pos' = cancelToBaseline(pos, baseline, cur)
    /\ groupsCache' = CacheAfterRefresh(groupsCache, helpers[cur], cur)
    /\ ops < MaxOps
    /\ ops' = ops + 1
    /\ last' = Call("cancelToBaseline", <<cur>>, <<>>)
    /\ committed' = pos'
    /\ trip' = TripIdle
    /\ pick2' = PickNone
    /\ UNCHANGED <<objects, nextId, isEditMode, isDragging, dragStarted, xform, helpers, flags, selection, baseline, acc, cur, log, net,
                 weldPending, history, undoRun, prompt>>

\* Faulty variant of clearSelection: the list is left as it is.
KeepSelection(sel) == sel
\* clearSelection(): state.selection = []
clearSelection(sel) == <<>>

\* clearSelection(obj)
ClearSelection ==
    /\ cur # NoObj
    /\ selection' = clearSelection(selection)
    /\ baseline' = Snapshot(pos, cur)
    /\ ops < MaxOps
    /\ ops' = ops + 1
    /\ last' = Call("clearSelection", <<cur>>, <<>>)
    /\ trip' = TripIdle
    /\ pick2' = PickNone
    /\ UNCHANGED <<objects, nextId, isEditMode, isDragging, dragStarted, pos, xform, helpers, flags, groupsCache, acc, cur, log, net, committed,
                 weldPending, history, undoRun, prompt>>

\* Faulty variant of addToHistory: the redo stack is kept.
PushKeepingFuture(h, action) == [past |-> Append(h.past, action), future |-> h.future]
\* addToHistory(action): history.past.push(action); history.future = []
addToHistory(h, action) == [past |-> Append(h.past, action), future |-> <<>>]

(* The handlers of the host (src/editor-core.js) that change which meshes   *)
(* there are, which one is selected and whether sub-components are edited.  *)
(* They call SUB.clearSelection() and SUB.setBaselineFromCurrent() without  *)
(* an argument; base is the baseline these calls leave.  With the engine of *)
(* part_000 setBaselineFromCurrent(undefined) returns at once and base is   *)
(* the baseline as it was.                                                  *)

\* selectObject(obj), obj a mesh of the scene or null (a click on nothing):
\* it returns at once when obj is the selected object.  The selection is
\* emptied and, for a mesh in edit mode, SUB.applySubVisibility(obj) builds
\* its helpers.
SelectObject(o, base) ==
    /\ o # cur
    /\ cur' = o
    /\ selection' = clearSelection(selection)
    /\ baseline' = base
    /\ helpers' = IF o # NoObj /\ isEditMode THEN [helpers EXCEPT ![o] = TRUE]
                  ELSE helpers
    /\ ops < MaxOps
    /\ ops' = ops + 1
    /\ last' = Call("selectObject", <<o>>, <<>>)
    /\ trip' = TripIdle
    /\ pick2' = PickNone
    /\ UNCHANGED <<pos, xform, flags, groupsCache, acc, log, net, committed,
                   weldPending, history, undoRun, prompt, objects, nextId,
                   isEditMode, isDragging, dragStarted>>

\* deleteSelected(): if (!selectedObject) return; the mesh leaves the scene
\* and the objects array, addToHistory({ type: 'delete', id }),
\* selectObject(null).  base is the baseline the engine is left with.
DeleteSelected(base) ==
    /\ cur # NoObj
    /\ objects' = objects \ {cur}
    /\ history' = addToHistory(history, [type |-> "delete", id |-> cur])
    /\ cur' = NoObj
    /\ selection' = clearSelection(selection)
    /\ baseline' = base
    /\ ops < MaxOps
    /\ ops' = ops + 1
    /\ last' = Call("deleteSelected", <<cur>>, <<>>)
    /\ undoRun' = RunIdle
    /\ trip' = TripIdle
    /\ pick2' = PickNone
    /\ UNCHANGED <<pos, xform, helpers, flags, groupsCache, acc, log, net,
                   committed, weldPending, prompt, nextId, isEditMode, isDragging, dragStarted>>

\* spawnPrimitive(type): a new mesh with id nextId++ enters the scene and the
\* objects array, addToHistory({ type: 'create', id, ... }), selectObject(mesh).
\* Every primitive has the geometry Mesh in the model.
SpawnPrimitive(base) ==
    /\ nextId <= MaxObjs
    /\ objects' = objects \cup {nextId}
    /\ nextId' = nextId + 1
    /\ history' = addToHistory(history, [type |-> "create", id |-> nextId])
    /\ cur' = nextId
    /\ selection' = clearSelection(selection)
    /\ baseline' = base
    /\ helpers' = IF isEditMode THEN [helpers EXCEPT ![nextId] = TRUE] ELSE helpers
    /\ ops < MaxOps
    /\ ops' = ops + 1
    /\ last' = Call("spawnPrimitive", <<nextId>>, <<>>)
    /\ undoRun' = RunIdle
    /\ trip' = TripIdle
    /\ pick2' = PickNone
    /\ UNCHANGED <<pos, xform, flags, groupsCache, acc, log, net, committed,
                   weldPending, prompt, isEditMode, isDragging, dragStarted>>

\* the data-mode 'select' button: isEditMode = true and, with a mesh
\* selected, SUB.applySubVisibility(selectedObject)
EnterEdit ==
    /\ isEditMode' = TRUE
    /\ helpers' = IF cur # NoObj THEN [helpers EXCEPT ![cur] = TRUE] ELSE helpers
    /\ ops < MaxOps
    /\ ops' = ops + 1
    /\ last' = Call("enterEdit", <<>>, <<>>)
    /\ trip' = TripIdle
    /\ pick2' = PickNone
    /\ UNCHANGED <<pos, xform, flags, selection, baseline, groupsCache, acc, cur,
                   log, net, committed, weldPending, history, undoRun, prompt,
                   objects, nextId, isDragging, dragStarted>>

\* exit-manipulation onclick: isEditMode = false, then SUB.clearSelection()
ExitEdit(base) ==
    /\ isEditMode' = FALSE
    /\ selection' = clearSelection(selection)
    /\ baseline' = base
    /\ ops < MaxOps
    /\ ops' = ops + 1
    /\ last' = Call("exitEdit", <<>>, <<>>)
    /\ trip' = TripIdle
    /\ pick2' = PickNone
    /\ UNCHANGED <<pos, xform, helpers, flags, groupsCache, acc, cur, log, net,
                   committed, weldPending, history, undoRun, prompt, objects,
                   nextId, isDragging, dragStarted>>

\* ensureHelpers(obj) and applySubVisibility(obj), which calls it: the
\* helpers of obj exist afterwards; op is the name of the function called
BuildHelpers(op, o) ==
    /\ helpers' = [helpers EXCEPT ![o] = TRUE]
    /\ ops < MaxOps
    /\ ops' = ops + 1
    /\ last' = Call(op, <<o>>, <<>>)
    /\ trip' = TripIdle
    /\ pick2' = PickNone
    /\ UNCHANGED <<objects, nextId, isEditMode, isDragging, dragStarted, pos, xform, flags, selection, baseline, groupsCache, acc, cur,
                   log, net, committed, weldPending, history, undoRun, prompt>>
EnsureHelpers(o) == BuildHelpers("ensureHelpers", o)
ApplySubVisibility(o) == BuildHelpers("applySubVisibility", o)

\* refreshHelpers(obj): if (!obj?.userData?.sub) return; the helpers are
\* rebuilt and the groups cache of obj is dropped
RefreshHelpers(o) ==
    /\ groupsCache' = CacheAfterRefresh(groupsCache, helpers[o], o)
    /\ ops < MaxOps
    /\ ops' = ops + 1
    /\ last' = Call("refreshHelpers", <<o>>, <<>>)
    /\ trip' = TripIdle
    /\ pick2' = PickNone
    /\ UNCHANGED <<objects, nextId, isEditMode, isDragging, dragStarted, pos, xform, helpers, flags, selection, baseline, acc, cur,
                   log, net, committed, weldPending, history, undoRun, prompt>>

\* togglePick(raycaster, obj)
TogglePick(ray) ==
    LET r == togglePick(flags, selection, groupsCache, pos[cur], xform[cur], cur, ray)
    IN  /\ ops < MaxOps
        /\ ops' = ops + 1
        /\ Len(r.sel) <= MaxSel
        /\ helpers' = [helpers EXCEPT ![cur] = TRUE]
        /\ baseline' = BaselineOnPick(baseline, pos, cur)
        /\ selection' = r.sel
        /\ groupsCache' = r.cache
        /\ last' = Call("togglePick", <<ray>>, <<r.ret>>)
        /\ pick2' = IF pick2.phase = "once" /\ pick2.ray = <<ray>>
                    THEN [pick2 EXCEPT !.phase = "twice"]
                    ELSE [phase |-> "once", ray |-> <<ray>>, keys0 |-> KeySet(selection)]
        /\ trip' = TripIdle
        /\ pos' = [pos EXCEPT ![cur] = togglePickPositions(@)]
        /\ UNCHANGED <<objects, nextId, isEditMode, isDragging, dragStarted, xform, flags, acc, cur, log, net, committed, weldPending, history, undoRun, prompt>>

\* applySelectionWorldDelta(obj, worldDelta)
ApplySelectionWorldDelta(worldDelta) ==
    LET dLocal == worldDeltaToLocalDelta(xform[cur], worldDelta)
    IN  /\ ops < MaxOps
        /\ ops' = ops + 1
        /\ last' = Call("applySelectionWorldDelta", <<worldDelta>>, <<>>)
        /\ pick2' = PickNone
        /\ IF ~hasSelection(selection)
           THEN /\ trip' = TripIdle
                /\ UNCHANGED <<pos, selection, groupsCache, acc, net>>
           ELSE /\ pos' = [pos EXCEPT ![cur] = MoveUnique(@, selection, dLocal)]
                /\ selection' = MoveCentroids(selection, dLocal)
                /\ acc' = VAdd(acc, dLocal)
                /\ groupsCache' = CacheAfterRefresh(groupsCache, helpers[cur], cur)
                /\ net' = [net EXCEPT ![cur] = [d |-> VAdd(@.d, worldDelta), n |-> @.n + 1]]
                /\ trip' = [phase |-> "moved", pos0 |-> pos, sel0 |-> selection,
                            acc0 |-> acc, clean |-> (acc = Zero3),
                            act |-> <<>>]
        /\ UNCHANGED <<objects, nextId, isEditMode, isDragging, dragStarted, xform, helpers, flags, baseline, cur, log, committed,
                     weldPending, history, undoRun, prompt>>

\* Faulty variant of PromptOutcome: without ui.showWeldPrompt the snap is
\* applied at once.
AutoSnap(cand, ui) ==
    IF cand = <<>> THEN "none"
    ELSE IF ui = "absent" THEN "snap"
    ELSE "prompt"
\* maybePromptWeld(obj): what becomes of the candidate.  Without a candidate
\* or without ui.showWeldPrompt ("absent") nothing is shown and false is
\* returned; otherwise the prompt is handed the closures onYes and onNo.
PromptOutcome(cand, ui) ==
    IF cand = <<>> THEN "none"
    ELSE IF ui = "absent" THEN "none"
    ELSE "prompt"

\* weldApplySnap(obj, targetPosLocal) on the mesh o: the selection as it is
\* now is moved so that its centre falls on the target; the indices are
\* those of the selection, the positions those of o; cache is the groups
\* cache before the call.
WeldApplySnap(o, target, cache) ==
    IF o = NoObj \/ ~hasSelection(selection)
    THEN /\ groupsCache' = cache
         /\ UNCHANGED <<pos, selection, acc, net>>
    ELSE LET d == SnapDelta(selection, target)
             dLocal == VDiv(d.num, d.den)
         IN  /\ VDivisible(d.num, d.den)
             /\ pos' = [pos EXCEPT ![o] = MoveUnique(@, selection, dLocal)]
             /\ selection' = MoveCentroids(selection, dLocal)
             /\ acc' = VAdd(acc, dLocal)
             /\ groupsCache' = CacheAfterRefresh(cache, helpers[o], o)
             /\ net' = [net EXCEPT ![o] = [d |-> VAdd(@.d, LinToWorld(xform[o], dLocal)),
                                           n |-> @.n + 1]]

\* The grid bound: the snap an open prompt stands for stays on the grid, so
\* that onYes has its successor wherever onYes can be called.
SnapOnGrid ==
    (prompt # <<>> /\ prompt[1].obj # NoObj /\ hasSelection(selection))
        => VDivisible(SnapDelta(selection, prompt[1].targetPosLocal).num,
                      SnapDelta(selection, prompt[1].targetPosLocal).den)

\* maybePromptWeld(obj): the search, and the prompt when there is a candidate
\* and a ui to show it; nothing is moved.  last.ret is the candidate the
\* search returned.  A prompt shown takes the place of the one still open.
MaybePromptWeld(ui) ==
    LET cand == weldFindCandidate(flags, selection, groupsCache, pos[cur], cur,
                                  DEFAULT_WELD_RADIUS)
        found == CacheAfterFind(flags, selection, groupsCache, pos[cur], cur)
        outcome == PromptOutcome(cand, ui)
    IN  /\ cur # NoObj
        /\ ops < MaxOps
        /\ ops' = ops + 1
        /\ last' = Call("maybePromptWeld", <<ui>>, cand)
        /\ pick2' = PickNone
        /\ trip' = TripIdle
        /\ prompt' = IF outcome = "prompt"
                     THEN <<[obj |-> cur, targetPosLocal |-> cand[1].targetPosLocal]>>
                     ELSE prompt
        /\ IF outcome = "snap"
           THEN WeldApplySnap(cur, cand[1].targetPosLocal, found)
           ELSE /\ groupsCache' = found
                /\ UNCHANGED <<pos, selection, acc, net>>
        /\ UNCHANGED <<objects, nextId, isEditMode, isDragging, dragStarted, xform, helpers, flags, baseline, cur, log, committed,
                       weldPending, history, undoRun>>

\* onYes of the open prompt: weldApplySnap(obj, cand.targetPosLocal), with the
\* mesh and the target of the call that opened the prompt
PromptYes ==
    /\ prompt # <<>>
    /\ ops < MaxOps
    /\ ops' = ops + 1
    /\ last' = Call("onYes", prompt, <<>>)
    /\ WeldApplySnap(prompt[1].obj, prompt[1].targetPosLocal, groupsCache)
    /\ prompt' = <<>>
    /\ pick2' = PickNone
    /\ trip' = TripIdle
    /\ UNCHANGED <<objects, nextId, isEditMode, isDragging, dragStarted, xform, helpers, flags, baseline, cur, log, committed,
                   weldPending, history, undoRun>>

\* onNo of the open prompt: () => {}
PromptNo ==
    /\ prompt # <<>>
    /\ ops < MaxOps
    /\ ops' = ops + 1
    /\ last' = Call("onNo", prompt, <<>>)
    /\ prompt' = <<>>
    /\ pick2' = PickNone
    /\ trip' = TripIdle
    /\ UNCHANGED <<objects, nextId, isEditMode, isDragging, dragStarted, pos, xform, helpers, flags, selection, baseline, groupsCache,
                   acc, cur, log, net, committed, weldPending, history, undoRun>>

\* Faulty variant of commitSelection: a returned action empties the selection.
CommitClears(sel) == <<>>
\* commitSelectionDeltaAsAction(objectId): the selection it leaves when it
\* returns an action; the indices are read into a Set, nothing is written
commitSelection(sel) == sel

\* commitSelectionDeltaAsAction(objectId)
Commit(objectId) ==
    LET r == commitSelectionDeltaAsAction(selection, acc, objectId)
    IN  /\ ops < MaxOps
        /\ ops' = ops + 1
        /\ last' = Call("commit", <<objectId>>, r)
        /\ pick2' = PickNone
        /\ IF r = <<>>
           THEN /\ trip' = TripIdle
                /\ UNCHANGED <<selection, acc, log, net, committed>>
           ELSE /\ selection' = commitSelection(selection)
                /\ acc' = Zero3
                /\ log' = Append(log, r[1])
                /\ net' = NoMoves
                /\ committed' = pos
                /\ trip' = IF trip.phase = "moved"
                           THEN [trip EXCEPT !.phase = "committed", !.act = r]
                           ELSE TripIdle
        /\ UNCHANGED <<objects, nextId, isEditMode, isDragging, dragStarted, pos, xform, helpers, flags, baseline, groupsCache, cur,
                       weldPending, history, undoRun, prompt>>

\* applySubEditForward(action) / applySubEditInverse(action)
Replay(op, a, d) ==
    LET found == findObjectById(objects, a.id)
    IN  /\ ops < MaxOps
        /\ ops' = ops + 1
        /\ last' = Call(op, <<a>>, <<>>)
        /\ pick2' = PickNone
        /\ IF found = <<>>
           THEN UNCHANGED <<pos, groupsCache, committed>>
           ELSE /\ pos' = [pos EXCEPT ![found[1]] =
                                  applyDeltaLocalToIndices(@, a.indices, d)]
                /\ groupsCache' = CacheAfterRefresh(groupsCache, helpers[found[1]],
                                                    found[1])
                /\ committed' = pos'
        /\ UNCHANGED <<objects, nextId, isEditMode, isDragging, dragStarted, xform, helpers, flags, selection, baseline, acc, cur, log, net,
                     weldPending, history, undoRun, prompt>>
ApplySubEditForward(a) ==
    /\ Replay("applySubEditForward", a, a.delta)
    /\ trip' = TripIdle
ApplySubEditInverse(a) ==
    /\ Replay("applySubEditInverse", a, VNeg(a.delta))
    /\ trip' = IF trip.phase = "committed" /\ trip.act = <<a>>
               THEN [trip EXCEPT !.phase = "undone"]
               ELSE TripIdle

Next ==
    \/ \E f \in FlagNames : SetFlags(f)
    \/ SetBaselineFromCurrent
    \/ CancelToBaseline
    \/ ClearSelection
    \/ \E o \in objects \cup {NoObj} : SelectObject(o, baseline)
    \/ DeleteSelected(baseline)
    \/ SpawnPrimitive(baseline)
    \/ EnterEdit
    \/ ExitEdit(baseline)
    \/ \E o \in objects : EnsureHelpers(o)
    \/ \E o \in objects : ApplySubVisibility(o)
    \/ \E o \in objects : RefreshHelpers(o)
    \/ cur # NoObj /\ \E ray \in Rays(xform[cur]) : TogglePick(ray)
    \/ cur # NoObj /\ \E wd \in WorldDeltas(xform[cur]) : ApplySelectionWorldDelta(wd)
    \/ \E ui \in {"prompt", "absent"} : MaybePromptWeld(ui)
    \/ PromptYes
    \/ PromptNo
    \/ \E id \in {0, cur} : Commit(id)
    \/ \E j \in 1 .. Len(log) : ApplySubEditForward(log[j])
    \/ \E j \in 1 .. Len(log) : ApplySubEditInverse(log[j])

Spec == Init /\ [][Next]_vars

-----------------------------------------------------------------------------
(* The same engine under calls a caller is free to make but the host does   *)
(* not: an operation called without a usable mesh (obj is null, or obj is a *)
(* mesh whose geometry has no position attribute), a replay of an action    *)
(* whose id findObjectById does not resolve, and a togglePick on another    *)
(* mesh while entries are selected.  A call either returns or throws a      *)
(* TypeError (a property read on null / undefined).                         *)

MeshArgs == {"null", "noPosition"}
\* An id no object of the scene carries.
UnknownId == MaxObjs + 1
\* The ids the mesh argument can carry: null has none
MeshIds(m, objs) == IF m = "null" THEN {NoObj} ELSE objs \cup {UnknownId}
GuardedOps == {"togglePick", "clearSelection", "applySelectionWorldDelta",
               "cancelToBaseline", "setBaselineFromCurrent", "weldFindCandidate"}

\* togglePick(raycaster, obj) on such a mesh: the ways the call can end.
\* null: ensureHelpers returns; state.baseline.id !== obj.userData.id reads
\* obj.userData when there is a baseline; obj.userData.sub is read when verts
\* or edges is on; with faces alone the call ends inside
\* raycaster.intersectObject(null), which is not code of this repository.
\* noPosition: ensureHelpers reads posAttr.array of the missing attribute.
togglePickWithout(m, fl, base) ==
    IF m = "noPosition" THEN {"TypeError"}
    ELSE IF base # <<>> THEN {"TypeError"}
    ELSE IF fl.verts \/ fl.edges THEN {"TypeError"}
    ELSE IF fl.faces THEN {"TypeError", "false"}
    ELSE {"false"}
\* applySelectionWorldDelta(obj, worldDelta): if (!obj || !hasSelection())
\* return; on the mesh without positions pos.setXYZ is called on undefined
applySelectionWorldDeltaWithout(m, sel) ==
    IF m = "null" \/ ~hasSelection(sel) THEN {"undefined"} ELSE {"TypeError"}
\* weldFindCandidate(obj): if (!obj || !hasSelection() || state.flags.explode)
\* return null.  On the mesh without positions pos is undefined and
\* buildVertexGroups returns an empty Map without writing the cache, so the
\* loop has groups to go through only if the cache holds those of the id of
\* the mesh; pos.getX is called for the first group free of selected indices.
weldFindCandidateWithout(m, id, fl, sel, cache) ==
    IF m = "null" \/ ~hasSelection(sel) \/ fl.explode THEN {"null"}
    ELSE IF CacheHit(cache, id) /\ FreeGroups(cache[1].map, sel) # {}
    THEN {"TypeError"}
    ELSE {"null"}
\* The ways op can end when called with the mesh argument m, whose
\* userData.id is id.
OutcomesWithout(op, m, id, fl, sel, base, cache) ==
    CASE op = "togglePick" -> togglePickWithout(m, fl, base)
      [] op = "applySelectionWorldDelta" -> applySelectionWorldDeltaWithout(m, sel)
      [] op = "weldFindCandidate" -> weldFindCandidateWithout(m, id, fl, sel, cache)
      [] OTHER -> {"undefined"}

\* One call of a public operation with the mesh argument m.  clearSelection
\* empties state.selection before setBaselineFromCurrent(obj) returns early;
\* no other call writes the engine state.
CallWithoutMesh(op, m, id, out) ==
    /\ ops < MaxOps
    /\ ops' = ops + 1
    /\ out \in OutcomesWithout(op, m, id, flags, selection, baseline, groupsCache)
    /\ last' = Call("withoutMesh", <<op, m, id>>, <<out>>)
    /\ selection' = IF op = "clearSelection" THEN <<>> ELSE selection
    /\ trip' = TripIdle
    /\ pick2' = PickNone
    /\ UNCHANGED <<objects, nextId, isEditMode, isDragging, dragStarted, pos, xform, helpers, flags, baseline, groupsCache, acc, cur,
                   log, net, committed, weldPending, history, undoRun, prompt>>

\* applySubEditForward / applySubEditInverse of a returned action whose
\* object is gone: if (!obj) return
ReplayUnknownId(op, a) ==
    /\ Replay(op, [a EXCEPT !.id = UnknownId], a.delta)
    /\ trip' = TripIdle

\* togglePick(raycaster, obj) with a mesh other than the one of the calls
\* before, and no clearSelection in between: the baseline is taken anew for
\* obj, state.selection is toggled as it stands.
TogglePickOn(o, ray) ==
    LET r == togglePick(flags, selection, groupsCache, pos[o], xform[o], o, ray)
    IN  /\ o # cur
        /\ hasSelection(selection)
        /\ cur' = o
        /\ ops < MaxOps
        /\ ops' = ops + 1
        /\ Len(r.sel) <= MaxSel
        /\ helpers' = [helpers EXCEPT ![o] = TRUE]
        /\ baseline' = BaselineOnPick(baseline, pos, o)
        /\ selection' = r.sel
        /\ groupsCache' = r.cache
        /\ last' = Call("togglePick", <<ray>>, <<r.ret>>)
        /\ pick2' = PickNone
        /\ trip' = TripIdle
        /\ pos' = [pos EXCEPT ![o] = togglePickPositions(@)]
        /\ UNCHANGED <<objects, nextId, isEditMode, isDragging, dragStarted, xform, flags, acc, log, net, committed, weldPending,
                       history, undoRun, prompt>>

NextGuards ==
    \/ \E f \in FlagNames : SetFlags(f)
    \/ ClearSelection
    \/ \E ray \in Rays(xform[cur]) : TogglePick(ray)
    \/ \E wd \in WorldDeltas(xform[cur]) : ApplySelectionWorldDelta(wd)
    \/ \E id \in {0, cur} : Commit(id)
    \/ \E o \in objects : \E ray \in Rays(xform[o]) : TogglePickOn(o, ray)
    \/ \E op \in GuardedOps : \E m \in MeshArgs : \E id \in MeshIds(m, objects) :
          \E out \in {"TypeError", "false", "null", "undefined"} :
              CallWithoutMesh(op, m, id, out)
    \/ \E op \in {"applySubEditForward", "applySubEditInverse"} :
          \E j \in 1 .. Len(log) : ReplayUnknownId(op, log[j])

SpecGuards == Init /\ [][NextGuards]_vars

-----------------------------------------------------------------------------
(* The engine of src/editor-subcomponents.js.  It keeps no groups cache, its *)
(* accumulated delta is the module-level accumulatedLocalDelta (acc), and    *)
(* its baseline is taken from getSelectedObject(), which looks the mesh up   *)
(* by the id of the baseline itself: from a null baseline it stays null.     *)

\* dist > 0.01 && dist < 0.4
ES_WeldMin == [num |-> 1, den |-> 100]
ES_WeldMax == [num |-> 2, den |-> 5]
ES_InWeldRange(a, b) ==
    /\ LongerThanLimit(DistSqBig(a, b), 1, ES_WeldMin)
    /\ ShorterThanLimit(DistSqBig(a, b), 1, ES_WeldMax)

\* getSelectedObject(): <<>> for null; objs is the objects array of the host
ES_getSelectedObject(objs, base) ==
    IF base # <<>> THEN findObjectById(objs, base[1].id) ELSE <<>>
\* setBaselineFromCurrent(): the baseline it leaves
ES_setBaselineFromCurrent(objs, base, p) ==
    IF ES_getSelectedObject(objs, base) = <<>> THEN base
    ELSE Snapshot(p, ES_getSelectedObject(objs, base)[1])
\* cancelToBaseline(): the positions it leaves
ES_cancelToBaseline(objs, base, p) ==
    IF ES_getSelectedObject(objs, base) = <<>> THEN p
    ELSE [p EXCEPT ![base[1].id] = base[1].positions]
RECURSIVE ES_SumWorld(_, _)
\* the sum of obj.localToWorld(s.centroidLocal) over the entries, in sixths
ES_SumWorld(sel, m) ==
    IF sel = <<>> THEN Zero3
    ELSE VAdd(VScale(6 \div Head(sel).centroidLocal.den,
                     VAdd(LinToWorld(m, Head(sel).centroidLocal.num),
                          VScale(Head(sel).centroidLocal.den, m.t))),
              ES_SumWorld(Tail(sel), m))
\* getSelectionWorldCenter(): <<>> for null, or the mean num / den of the
\* entries' centroids in world space; xf[o] is the matrixWorld of object o
ES_getSelectionWorldCenter(objs, base, sel, xf) ==
    IF ES_getSelectedObject(objs, base) = <<>> \/ ~hasSelection(sel) THEN <<>>
    ELSE <<[num |-> ES_SumWorld(sel, xf[ES_getSelectedObject(objs, base)[1]]),
            den |-> 6 * Len(sel)]>>
\* togglePick: if (!state.baseline || state.baseline.id !== obj.userData.id)
\*             { state.baseline = null; setBaselineFromCurrent(); }
ES_BaselineOnPick(objs, base, p, o) ==
    IF base = <<>> \/ base[1].id # o THEN ES_setBaselineFromCurrent(objs, <<>>, p)
    ELSE base

\* getGroupForVertexIndex(obj, idx): the groups are rebuilt on every call
ES_getGroupForVertexIndex(fl, p, idx) ==
    IF fl.explode THEN [key |-> [tag |-> "i", ints |-> <<idx>>], indices |-> <<idx>>]
    ELSE LET k == keyForPos(p[idx])
             got == MapGet(buildVertexGroups(p), k)
         IN  [key |-> [tag |-> "g", ints |-> k],
              indices |-> IF got = <<>> THEN <<idx>> ELSE got]

\* togglePick(raycaster, obj): the selection it leaves and what it returns
ES_togglePick(fl, sel, p, m, ray) ==
    IF fl.verts /\ ray.v # <<>>
    THEN LET grp == ES_getGroupForVertexIndex(fl, p, ray.v[1])
             selKey == makeSelectionKey("v", grp.key, grp.indices)
         IN  [sel |-> ToggleEntry(sel, "v", selKey, grp.indices,
                                  centroidLocalFromIndices(p, grp.indices)),
              ret |-> TRUE]
    ELSE IF fl.edges /\ ray.e # <<>>
    THEN LET r == togglePickEdge(sel, <<>>, p, m, ray.e[1])
         IN  [sel |-> r.sel, ret |-> r.ret]
    ELSE IF fl.faces /\ ray.f # <<>>
    THEN LET r == togglePickFace(sel, <<>>, p, ray.f[1])
         IN  [sel |-> r.sel, ret |-> r.ret]
    ELSE [sel |-> sel, ret |-> FALSE]

\* state.selection.filter(s => s.kind === 'v')
ES_vertexSelections(sel) == SelectSeq(sel, LAMBDA s : s.kind = "v")

RECURSIVE ES_ScanSelected(_, _, _, _)
\* for (const idx of selectedIndices) for (let i = 0; i < pos.count; i++):
\* the first pair in range, <<>> for none
ES_ScanSelected(src, all, p, selSet) ==
    IF src = <<>> THEN <<>>
    ELSE LET hits == {i \in Idx \ selSet : ES_InWeldRange(p[Head(src)], p[i])}
         IN  IF hits = {} THEN ES_ScanSelected(Tail(src), all, p, selSet)
             ELSE LET i == CHOOSE i \in hits : \A h \in hits : i <= h
                      got == MapGet(buildVertexGroups(p), keyForPos(p[i]))
                  IN  <<[sourceIndices |-> all, targetPosition |-> p[i],
                         targetIndices |-> IF got = <<>> THEN <<i>> ELSE got]>>

\* checkWeld(obj): <<>> for null, or <<weldInfo>>
checkWeld(fl, sel, p) ==
    IF ~fl.verts \/ fl.explode THEN <<>>
    ELSE IF ~hasSelection(sel) THEN <<>>
    ELSE IF ES_vertexSelections(sel) = <<>> THEN <<>>
    ELSE LET selectedIndices == getUniqueSelectedIndices(ES_vertexSelections(sel))
         IN  ES_ScanSelected(selectedIndices, selectedIndices, p, Range(selectedIndices))

\* The part every handler and call of this section shares: one more step, and
\* the trackers of the two-step properties start over.
ES_Step(op, arg, ret) ==
    /\ ops < MaxOps
    /\ ops' = ops + 1
    /\ last' = Call(op, arg, ret)
    /\ pick2' = PickNone

\* setFlags(patch) called on its own, with the patch that toggles flag f
ES_SetFlags(f) ==
    /\ ES_Step("setFlags", <<f>>, <<>>)
    /\ flags' = [flags EXCEPT ![f] = ~@]
    /\ trip' = TripIdle
    /\ UNCHANGED <<objects, nextId, isEditMode, isDragging, dragStarted, pos, xform, helpers, selection,
                   baseline, groupsCache, acc, cur, log, net, committed,
                   weldPending, history, undoRun, prompt>>

\* sub-verts, sub-edges, sub-faces onclick: setFlags(patch) with the patch of
\* the button, then if (selectedObject) SUB.applySubVisibility(selectedObject)
ES_SubFlag(f) ==
    /\ ES_Step("subFlag", <<f>>, <<>>)
    /\ flags' = [flags EXCEPT ![f] = ~@]
    /\ helpers' = IF cur # NoObj THEN [helpers EXCEPT ![cur] = TRUE] ELSE helpers
    /\ trip' = TripIdle
    /\ UNCHANGED <<objects, nextId, isEditMode, isDragging, dragStarted, pos, xform, selection, baseline,
                   groupsCache, acc, cur, log, net, committed, weldPending,
                   history, undoRun, prompt>>

\* clearSelection() called on its own
ES_ClearSelection ==
    /\ ES_Step("clearSelection", <<>>, <<>>)
    /\ selection' = clearSelection(selection)
    /\ baseline' = ES_setBaselineFromCurrent(objects, baseline, pos)
    /\ trip' = TripIdle
    /\ UNCHANGED <<objects, nextId, isEditMode, isDragging, dragStarted, pos, xform, helpers, flags,
                   groupsCache, acc, cur, log, net, committed, weldPending,
                   history, undoRun, prompt>>

\* sub-clear onclick: SUB.clearSelection(); subTransform.detach();
\* if (selectedObject) SUB.applySubVisibility(selectedObject)
ES_SubClear ==
    /\ ES_Step("subClear", <<>>, <<>>)
    /\ selection' = clearSelection(selection)
    /\ baseline' = ES_setBaselineFromCurrent(objects, baseline, pos)
    /\ helpers' = IF cur # NoObj THEN [helpers EXCEPT ![cur] = TRUE] ELSE helpers
    /\ trip' = TripIdle
    /\ UNCHANGED <<objects, nextId, isEditMode, isDragging, dragStarted, pos, xform, flags, groupsCache,
                   acc, cur, log, net, committed, weldPending, history, undoRun,
                   prompt>>

\* sub-explode onclick: setFlags({ explode: !flags.explode }), then
\* clearSelection(), then if (selectedObject) SUB.applySubVisibility(...)
ES_SubExplode ==
    /\ ES_Step("subExplode", <<>>, <<>>)
    /\ flags' = [flags EXCEPT !.explode = ~@]
    /\ selection' = clearSelection(selection)
    /\ baseline' = ES_setBaselineFromCurrent(objects, baseline, pos)
    /\ helpers' = IF cur # NoObj THEN [helpers EXCEPT ![cur] = TRUE] ELSE helpers
    /\ trip' = TripIdle
    /\ UNCHANGED <<objects, nextId, isEditMode, isDragging, dragStarted, pos, xform, groupsCache, acc, cur,
                   log, net, committed, weldPending, history, undoRun, prompt>>

\* togglePick(raycaster, obj) on the selected mesh; pending is the pending weld
\* the caller leaves
ES_Pick(ray, pending) ==
    LET r == ES_togglePick(flags, selection, pos[cur], xform[cur], ray)
    IN  /\ ops < MaxOps
        /\ ops' = ops + 1
        /\ Len(r.sel) <= MaxSel
        /\ helpers' = [helpers EXCEPT ![cur] = TRUE]
        /\ baseline' = ES_BaselineOnPick(objects, baseline, pos, cur)
        /\ selection' = r.sel
        /\ last' = Call("togglePick", <<ray>>, <<r.ret>>)
        /\ pick2' = IF pick2.phase = "once" /\ pick2.ray = <<ray>>
                    THEN [pick2 EXCEPT !.phase = "twice"]
                    ELSE [phase |-> "once", ray |-> <<ray>>, keys0 |-> KeySet(selection)]
        /\ trip' = TripIdle
        /\ weldPending' = pending
        /\ UNCHANGED <<objects, nextId, isEditMode, isDragging, dragStarted, pos, xform, flags, groupsCache,
                       acc, cur, log, net, committed, history, undoRun, prompt>>

\* togglePick(raycaster, obj) called on its own
ES_TogglePick(ray) ==
    /\ cur # NoObj
    /\ ES_Pick(ray, weldPending)

\* renderer pointerdown with isEditMode && selectedObject:
\* changed = SUB.togglePick(raycaster, selectedObject); if it changed and
\* something is selected the gizmo is placed and checkAndShowWeldPanel() runs
ES_PointerDown(ray) ==
    /\ isEditMode
    /\ cur # NoObj
    /\ LET r == ES_togglePick(flags, selection, pos[cur], xform[cur], ray)
       IN  ES_Pick(ray, IF r.ret /\ hasSelection(r.sel)
                        THEN checkWeld(flags, r.sel, pos[cur])
                        ELSE weldPending)

\* renderer pointerdown otherwise: selectObject(hit) or selectObject(null)
ES_PointerDownObject(o) ==
    /\ ~(isEditMode /\ cur # NoObj)
    /\ SelectObject(o, ES_setBaselineFromCurrent(objects, baseline, pos))
\* btn-delete onclick
ES_DeleteSelected ==
    DeleteSelected(ES_setBaselineFromCurrent(objects \ {cur}, baseline, pos))
\* the buttons that add a primitive
ES_SpawnPrimitive ==
    SpawnPrimitive(ES_setBaselineFromCurrent(objects \cup {nextId}, baseline, pos))
\* exit-manipulation onclick
ES_ExitEdit ==
    ExitEdit(ES_setBaselineFromCurrent(objects, baseline, pos))

\* What a drag of the object gizmo can leave as the matrixWorld of the mesh:
\* moved up by a Step, or turned by a further quarter.
ObjectDrags(m) ==
    {[m EXCEPT !.t = VAdd(@, <<0, Step, 0>>)], [m EXCEPT !.rot = (@ + 1) % 4]}
\* The three listeners of the object gizmo (transform).  The gizmo is
\* attached while a mesh is selected outside edit mode (selectObject, the
\* data-mode 'select' button, exit-manipulation), and it reports objectChange
\* and mouseUp only in a drag its mouseDown began.
GizmoAttached == ~isEditMode /\ cur # NoObj

\* transform mouseDown: isDragging = false; dragStarted = true
HostMouseDown ==
    /\ GizmoAttached
    /\ ES_Step("mouseDown", <<cur>>, <<>>)
    /\ isDragging' = FALSE
    /\ dragStarted' = TRUE
    /\ undoRun' = RunIdle
    /\ trip' = TripIdle
    /\ UNCHANGED <<objects, nextId, isEditMode, pos, xform, helpers, flags,
                   selection, baseline, groupsCache, acc, cur, log, net, committed,
                   weldPending, history, prompt>>

\* transform objectChange, after the gizmo has given the mesh the matrixWorld
\* x: if (dragStarted) { isDragging = true; }
HostObjectChange(x) ==
    /\ GizmoAttached
    /\ dragStarted
    /\ ES_Step("objectChange", <<cur>>, <<>>)
    /\ xform' = [xform EXCEPT ![cur] = x]
    /\ isDragging' = IF dragStarted THEN TRUE ELSE isDragging
    /\ undoRun' = RunIdle
    /\ trip' = TripIdle
    /\ UNCHANGED <<objects, nextId, isEditMode, dragStarted, pos, helpers, flags,
                   selection, baseline, groupsCache, acc, cur, log, net, committed,
                   weldPending, history, prompt>>

\* transform mouseUp: if (isDragging && selectedObject)
\* addToHistory({ type: 'transform', id, ... }); isDragging = false;
\* dragStarted = false
HostMouseUp ==
    /\ GizmoAttached
    /\ dragStarted
    /\ ES_Step("mouseUp", <<cur>>, <<>>)
    /\ history' = IF isDragging /\ cur # NoObj
                  THEN addToHistory(history, [type |-> "transform", id |-> cur])
                  ELSE history
    /\ isDragging' = FALSE
    /\ dragStarted' = FALSE
    /\ undoRun' = RunIdle
    /\ trip' = TripIdle
    /\ UNCHANGED <<objects, nextId, isEditMode, pos, xform, helpers, flags,
                   selection, baseline, groupsCache, acc, cur, log, net, committed,
                   weldPending, prompt>>

\* setBaselineFromCurrent() called on its own
ES_SetBaselineFromCurrent ==
    /\ ES_Step("setBaselineFromCurrent", <<>>, <<>>)
    /\ baseline' = ES_setBaselineFromCurrent(objects, baseline, pos)
    /\ trip' = TripIdle
    /\ UNCHANGED <<objects, nextId, isEditMode, isDragging, dragStarted, pos, xform, helpers, flags,
                   selection, groupsCache, acc, cur, log, net, committed,
                   weldPending, history, undoRun, prompt>>

\* cancelToBaseline() called on its own
ES_CancelToBaseline ==
    /\ ES_Step("cancelToBaseline", <<>>, <<>>)
    /\ pos' = ES_cancelToBaseline(objects, baseline, pos)
    /\ trip' = TripIdle
    /\ UNCHANGED <<objects, nextId, isEditMode, isDragging, dragStarted, xform, helpers, flags, selection,
                   baseline, groupsCache, acc, cur, log, net, committed,
                   weldPending, history, undoRun, prompt>>

\* applySelectionWorldDelta: p0 = obj.worldToLocal(obj.position.clone()),
\* p1 = obj.worldToLocal(obj.position.clone().add(worldDelta)), dLocal = p1 - p0
ES_localDelta(m, worldDelta) ==
    VSub(worldToLocal(m, VAdd(m.t, worldDelta)), worldToLocal(m, m.t))

\* What applySelectionWorldDelta(obj, worldDelta) does to the selected mesh.
ES_Moved(worldDelta) ==
    LET dLocal == ES_localDelta(xform[cur], worldDelta)
    IN  IF ~hasSelection(selection)
        THEN /\ trip' = TripIdle
             /\ UNCHANGED <<pos, selection, acc, net>>
        ELSE /\ pos' = [pos EXCEPT ![cur] = MoveUnique(@, selection, dLocal)]
             /\ selection' = MoveCentroids(selection, dLocal)
             /\ acc' = VAdd(acc, dLocal)
             /\ net' = [net EXCEPT ![cur] = [d |-> VAdd(@.d, worldDelta), n |-> @.n + 1]]
             /\ trip' = [phase |-> "moved", pos0 |-> pos, sel0 |-> selection,
                         acc0 |-> acc, clean |-> (acc = Zero3),
                         act |-> <<>>]

\* applySelectionWorldDelta(obj, worldDelta) called on its own
ES_ApplySelectionWorldDelta(worldDelta) ==
    /\ cur # NoObj
    /\ ES_Step("applySelectionWorldDelta", <<worldDelta>>, <<>>)
    /\ ES_Moved(worldDelta)
    /\ UNCHANGED <<objects, nextId, isEditMode, isDragging, dragStarted, xform, helpers, flags, baseline,
                   groupsCache, cur, log, committed, weldPending, history, undoRun,
                   prompt>>

\* objectChange of the sub-component gizmo, after its mouseDown:
\* if (!selectedObject) return; currentCenter = SUB.getSelectionWorldCenter();
\* if (!currentCenter) return; worldDelta = subTransform.position - currentCenter;
\* SUB.applySelectionWorldDelta(selectedObject, worldDelta)
ES_ObjectChange(worldDelta) ==
    /\ cur # NoObj
    /\ ES_Step("objectChange", <<worldDelta>>, <<>>)
    /\ IF ES_getSelectionWorldCenter(objects, baseline, selection, xform) = <<>>
       THEN /\ trip' = TripIdle
            /\ UNCHANGED <<pos, selection, acc, net>>
       ELSE ES_Moved(worldDelta)
    /\ UNCHANGED <<objects, nextId, isEditMode, isDragging, dragStarted, xform, helpers, flags, baseline,
                   groupsCache, cur, log, committed, weldPending, history, undoRun,
                   prompt>>

\* checkWeld(obj) called on its own; last.ret is what it returned
ES_CheckWeld ==
    /\ cur # NoObj
    /\ ES_Step("checkWeld", <<cur>>, checkWeld(flags, selection, pos[cur]))
    /\ trip' = TripIdle
    /\ UNCHANGED <<objects, nextId, isEditMode, isDragging, dragStarted, pos, xform, helpers, flags,
                   selection, baseline, groupsCache, acc, cur, log, net, committed,
                   weldPending, history, undoRun, prompt>>

\* setWeldPending(info) { state.weldPending = info; }
ES_SetWeldPendingTo(weldInfo) ==
    /\ ES_Step("setWeldPending", weldInfo, <<>>)
    /\ weldPending' = weldInfo
    /\ trip' = TripIdle
    /\ UNCHANGED <<objects, nextId, isEditMode, isDragging, dragStarted, pos, xform, helpers, flags,
                   selection, baseline, groupsCache, acc, cur, log, net, committed,
                   history, undoRun, prompt>>
\* setWeldPending called on its own, with null or with what checkWeld returns
ES_SetWeldPending ==
    /\ cur # NoObj
    /\ \E info \in {<<>>, checkWeld(flags, selection, pos[cur])} :
           ES_SetWeldPendingTo(info)

\* applyWeld(obj, weldInfo): the positions it leaves ...
applyWeld(pO, info) ==
    [i \in Idx |-> IF i \in Range(info.sourceIndices) THEN info.targetPosition
                   ELSE pO[i]]
\* ... and the centroids: if (s.kind === 'v') s.centroidLocal.copy(targetPos)
ES_WeldCentroids(sel, info) ==
    [j \in 1 .. Len(sel) |->
        IF sel[j].kind = "v"
        THEN [sel[j] EXCEPT !.centroidLocal =
                  [num |-> VScale(@.den, info.targetPosition), den |-> @.den]]
        ELSE sel[j]]

\* applyWeld(obj, getWeldPending()) called on its own with a pending weld
ES_ApplyWeld ==
    /\ cur # NoObj
    /\ weldPending # <<>>
    /\ ES_Step("applyWeld", weldPending, <<>>)
    /\ pos' = [pos EXCEPT ![cur] = applyWeld(@, weldPending[1])]
    /\ selection' = ES_WeldCentroids(selection, weldPending[1])
    /\ trip' = TripIdle
    /\ UNCHANGED <<objects, nextId, isEditMode, isDragging, dragStarted, xform, helpers, flags, baseline,
                   groupsCache, acc, cur, log, net, committed, weldPending, history,
                   undoRun, prompt>>

\* btn-weld-yes: if (weldInfo && selectedObject) applyWeld(selectedObject,
\* weldInfo) and addToHistory({type:'weld', id, weldInfo}); then
\* clearWeldPending().  The entry of type 'weld' is kept out of log, which
\* holds the actions commit returned.
ES_WeldYes ==
    /\ ES_Step("applyWeld", weldPending, <<>>)
    /\ IF weldPending = <<>> \/ cur = NoObj
       THEN /\ trip' = TripIdle
            /\ UNCHANGED <<pos, selection, history>>
       ELSE /\ pos' = [pos EXCEPT ![cur] = applyWeld(@, weldPending[1])]
            /\ selection' = ES_WeldCentroids(selection, weldPending[1])
            /\ history' = addToHistory(history, [type |-> "weld", id |-> cur,
                                                 weldInfo |-> weldPending[1]])
            /\ trip' = [TripIdle EXCEPT !.phase = "welded", !.pos0 = pos,
                                        !.act = weldPending]
    /\ weldPending' = <<>>
    /\ UNCHANGED <<objects, nextId, isEditMode, isDragging, dragStarted, xform, helpers, flags, baseline,
                   groupsCache, acc, cur, log, net, committed, undoRun, prompt>>

\* btn-weld-no: clearWeldPending()
ES_WeldNo ==
    /\ ES_Step("weldNo", <<>>, <<>>)
    /\ weldPending' = <<>>
    /\ trip' = TripIdle
    /\ UNCHANGED <<objects, nextId, isEditMode, isDragging, dragStarted, pos, xform, helpers, flags,
                   selection, baseline, groupsCache, acc, cur, log, net, committed,
                   history, undoRun, prompt>>

\* What commitSelectionDeltaAsAction(objectId) does; r is what it returns.
ES_Committed(r) ==
    IF r = <<>>
    THEN UNCHANGED <<acc, log, net, committed>>
    ELSE /\ acc' = Zero3
         /\ log' = Append(log, r[1])
         /\ net' = NoMoves
         /\ committed' = pos

\* commitSelectionDeltaAsAction(objectId) called on its own, with the id of the
\* selected mesh; last.ret is what it returned
ES_CommitSelectionDelta ==
    LET r == commitSelectionDeltaAsAction(selection, acc, cur)
    IN  /\ cur # NoObj
        /\ ES_Step("commitSelectionDelta", <<cur>>, r)
        /\ ES_Committed(r)
        /\ trip' = TripIdle
        /\ UNCHANGED <<objects, nextId, isEditMode, isDragging, dragStarted, pos, xform, helpers, flags,
                       selection, baseline, groupsCache, cur, weldPending, history,
                       undoRun, prompt>>

\* mouseUp of the sub-component gizmo, after its mouseDown, with a mesh
\* selected: the drag ends.
\* action = SUB.commitSelectionDeltaAsAction(selectedObject.userData.id);
\* if (action) addToHistory(action); SUB.setBaselineFromCurrent();
\* checkAndShowWeldPanel().  last.ret is what commit returned.
ES_Commit ==
    LET r == commitSelectionDeltaAsAction(selection, acc, cur)
    IN  /\ cur # NoObj
        /\ ES_Step("commit", <<cur>>, r)
        /\ ES_Committed(r)
        /\ history' = IF r = <<>> THEN history ELSE addToHistory(history, r[1])
        /\ trip' = TripIdle
        /\ baseline' = ES_setBaselineFromCurrent(objects, baseline, pos)
        /\ weldPending' = checkWeld(flags, selection, pos[cur])
        /\ UNCHANGED <<objects, nextId, isEditMode, isDragging, dragStarted, pos, xform, helpers, flags,
                       selection, groupsCache, cur, undoRun, prompt>>

\* The positions an entry of the history leaves when it is undone (dir = -1)
\* or redone (dir = 1): if (action.type === 'subEdit')
\* SUB.applySubEditInverse(action) / SUB.applySubEditForward(action), which
\* return when findObjectById(action.id) finds nothing; an entry of any other
\* type changes nothing.
HistoryReplay(objs, p, action, dir) ==
    IF action.type = "subEdit" /\ findObjectById(objs, action.id) # <<>>
    THEN [p EXCEPT ![action.id] =
             applyDeltaLocalToIndices(@, action.indices,
                                      IF dir < 0 THEN VNeg(action.delta) ELSE action.delta)]
    ELSE p

\* applySubEditForward(action) (dir = 1) or applySubEditInverse(action)
\* (dir = -1) called on its own with an action commit returned
ES_ApplySubEdit(action, dir) ==
    /\ ES_Step(IF dir < 0 THEN "applySubEditInverse" ELSE "applySubEditForward",
               <<action>>, <<>>)
    /\ pos' = HistoryReplay(objects, pos, action, dir)
    /\ committed' = pos'
    /\ trip' = TripIdle
    /\ UNCHANGED <<objects, nextId, isEditMode, isDragging, dragStarted, xform, helpers, flags, selection,
                   baseline, groupsCache, acc, cur, log, net, weldPending, history,
                   undoRun, prompt>>

\* btn-undo onclick
ES_Undo ==
    /\ ops < MaxOps
    /\ ops' = ops + 1
    /\ history.past # <<>>
    /\ LET action == history.past[Len(history.past)]
       IN  /\ history' = [past |-> SubSeq(history.past, 1, Len(history.past) - 1),
                          future |-> Append(history.future, action)]
           /\ pos' = HistoryReplay(objects, pos, action, -1)
           /\ last' = Call("undo", <<action>>, <<>>)
    /\ committed' = pos'
    /\ trip' = IF trip.phase = "welded" THEN [trip EXCEPT !.phase = "weldUndone"]
               ELSE TripIdle
    /\ undoRun' = IF undoRun.phase = "undo" /\ undoRun.at = ops
                  THEN [undoRun EXCEPT !.k = @ + 1, !.n = @ + 1, !.at = ops']
                  ELSE [phase |-> "undo", k |-> 1, n |-> 1, at |-> ops',
                        pos0 |-> pos, hist0 |-> history]
    /\ pick2' = PickNone
    /\ UNCHANGED <<objects, nextId, isEditMode, isDragging, dragStarted, xform, helpers, flags, selection,
                   baseline, groupsCache, acc, cur, log, net, weldPending, prompt>>

\* btn-redo onclick
ES_Redo ==
    /\ ops < MaxOps
    /\ ops' = ops + 1
    /\ history.future # <<>>
    /\ LET action == history.future[Len(history.future)]
       IN  /\ history' = [past |-> Append(history.past, action),
                          future |-> SubSeq(history.future, 1, Len(history.future) - 1)]
           /\ pos' = HistoryReplay(objects, pos, action, 1)
           /\ last' = Call("redo", <<action>>, <<>>)
    /\ committed' = pos'
    /\ trip' = IF trip.phase = "weldUndone" THEN [trip EXCEPT !.phase = "weldRedone"]
               ELSE TripIdle
    /\ undoRun' = IF undoRun.phase \in {"undo", "redo"} /\ undoRun.at = ops
                                                        /\ undoRun.k > 0
                  THEN [undoRun EXCEPT !.phase = "redo", !.k = @ - 1, !.at = ops']
                  ELSE RunIdle
    /\ pick2' = PickNone
    /\ UNCHANGED <<objects, nextId, isEditMode, isDragging, dragStarted, xform, helpers, flags, selection,
                   baseline, groupsCache, acc, cur, log, net, weldPending, prompt>>

\* btn-color onclick: if (!selectedObject) return; the material colour changes
\* and addToHistory({type:'color', id, color})
HostColor ==
    /\ cur # NoObj
    /\ ES_Step("color", <<cur>>, <<>>)
    /\ history' = addToHistory(history, [type |-> "color", id |-> cur])
    /\ undoRun' = RunIdle
    /\ trip' = TripIdle
    /\ UNCHANGED <<objects, nextId, isEditMode, isDragging, dragStarted, pos, xform, helpers, flags,
                   selection, baseline, groupsCache, acc, cur, log, net, committed,
                   weldPending, prompt>>

\* The handlers of the host a user can drive.  The listeners of the
\* sub-component gizmo are not among them: the gizmo is attached in pointerdown
\* only if SUB.getSelectionWorldCenter() returns a centre.
NextHost ==
    \/ cur # NoObj /\ \E ray \in Rays(xform[cur]) : ES_PointerDown(ray)
    \/ \E o \in objects \cup {NoObj} : ES_PointerDownObject(o)
    \/ ES_SpawnPrimitive
    \/ ES_DeleteSelected
    \/ EnterEdit
    \/ ES_ExitEdit
    \/ \E f \in FlagNames \ {"explode"} : ES_SubFlag(f)
    \/ ES_SubExplode
    \/ ES_SubClear
    \/ ES_WeldYes
    \/ ES_WeldNo
    \/ ES_Undo
    \/ ES_Redo
    \/ HostColor
    \/ HostMouseDown
    \/ cur # NoObj /\ \E x \in ObjectDrags(xform[cur]) : HostObjectChange(x)
    \/ HostMouseUp

SpecHost == InitEdit /\ [][NextHost]_vars

\* The handlers, the two listeners of the sub-component gizmo invoked after
\* its mouseDown, and the functions of the engine called on their own.
NextES ==
    \/ NextHost
    \/ cur # NoObj /\ \E wd \in WorldDeltas(xform[cur]) : ES_ObjectChange(wd)
    \/ ES_Commit
    \/ \E f \in FlagNames : ES_SetFlags(f)
    \/ \E o \in objects : ApplySubVisibility(o)
    \/ ES_ClearSelection
    \/ cur # NoObj /\ \E ray \in Rays(xform[cur]) : ES_TogglePick(ray)
    \/ cur # NoObj /\ \E wd \in WorldDeltas(xform[cur]) : ES_ApplySelectionWorldDelta(wd)
    \/ ES_SetBaselineFromCurrent
    \/ ES_CancelToBaseline
    \/ ES_CommitSelectionDelta
    \/ \E j \in 1 .. Len(log), dir \in {-1, 1} : ES_ApplySubEdit(log[j], dir)
    \/ ES_CheckWeld
    \/ ES_SetWeldPending
    \/ ES_ApplyWeld

SpecES == InitEdit /\ [][NextES]_vars

-----------------------------------------------------------------------------
(* The host's history: btn-undo, btn-redo and what adds an entry.  An entry  *)
(* of type subEdit comes from the mouseUp listener of the sub-component     *)
(* gizmo, once picks and applySelectionWorldDelta have moved vertices; the  *)
(* other entries come from btn-color and btn-delete.  A behaviour is        *)
(* MaxHist calls long, enough for two edits to be committed, undone and     *)
(* redone.                                                                  *)

\* Largest number of calls in one behaviour of SpecHistory.
MaxHist == 9
\* The count of calls starts MaxHist below MaxOps.
InitHistory == Start(TRUE, MaxOps - MaxHist)

\* The vertices clicked and the delta applied in SpecHistory.
HistoryRays == {Ray(<<i>>, <<>>, <<>>) : i \in {0, 1}}
HistoryDeltas(m) == {LinToWorld(m, d) : d \in {<<Step, 0, 0>>}}

NextHistory ==
    \/ ES_Undo
    \/ ES_Redo
    \/ HostColor
    \/ ES_DeleteSelected
    \/ cur # NoObj /\ \E ray \in HistoryRays : ES_PointerDown(ray)
    \/ cur # NoObj /\ \E wd \in HistoryDeltas(xform[cur]) : ES_ApplySelectionWorldDelta(wd)
    \/ ES_Commit

SpecHistory == InitHistory /\ [][NextHistory]_vars

-----------------------------------------------------------------------------
(* The grouping functions on their own: keyForPos, buildVertexGroups,        *)
(* getGroups and getGroupForVertexIndex applied to meshes whose first two    *)
(* vertices lie on and around a coordinate half-way between two cells.       *)

\* The least positive coordinate that lies half-way between two cells:
\* HalfWay * EpsNum / EpsDen = 312.5 (x = 1/32 = 0.03125, x / 1e-4 = 312.5).
HalfWay == EpsDen \div 2
\* The largest difference of two coordinates that is at most GROUP_EPS.
EpsWidth == EpsDen \div EpsNum
\* HalfWay, its two neighbours on the grid, and the coordinates one GROUP_EPS
\* below and above it: the last of cell 311, the first and the last of cell
\* 312, the first, the second and the last of cell 313, the first of cell 314.
ProbeCoords ==
    {HalfWay - EpsWidth - 1, HalfWay - EpsWidth, HalfWay - 1, HalfWay, HalfWay + 1,
     HalfWay + EpsWidth, HalfWay + EpsWidth + 1}
\* On the negative side -HalfWay is the first coordinate of cell -312 and its
\* neighbour below the last of cell -313.  The origin is where the mesh keeps
\* vertex 3, the duplicate of vertex 0.
ProbePoints ==
    {<<x, y, 0>> : x \in ProbeCoords, y \in {0, 0 - HalfWay, 0 - HalfWay - 1}}
        \cup {<<HalfWay, 0, 0 - HalfWay>>, Zero3}
ProbeMeshes == {[Mesh EXCEPT ![0] = a, ![1] = b] : a \in ProbePoints, b \in ProbePoints}

InitGroups ==
    /\ objects = StartObjects
    /\ pos \in {[o \in Objs |-> m] : m \in ProbeMeshes}
    /\ xform = StartXform
    /\ helpers = [o \in Objs |-> FALSE]
    /\ flags = [verts |-> TRUE, edges |-> FALSE, faces |-> FALSE, explode |-> FALSE]
    /\ selection = <<>>
    /\ baseline = <<>>
    /\ groupsCache = <<>>
    /\ acc = Zero3
    /\ cur = 1
    /\ log = <<>>
    /\ ops = 0
    /\ last = Call("init", <<>>, <<>>)
    /\ net = NoMoves
    /\ committed = pos
    /\ trip = TripIdle
    /\ pick2 = PickNone
    /\ weldPending = <<>>
    /\ history = StartHistory
    /\ undoRun = RunIdle
    /\ prompt = <<>>
    /\ nextId = Cardinality(StartObjects) + 1
    /\ isEditMode = FALSE
    /\ isDragging = FALSE
    /\ dragStarted = FALSE

\* getGroupForVertexIndex(obj, idx); last.ret is the group it returns
GetGroupForVertexIndex(idx) ==
    /\ ops < MaxOps
    /\ ops' = ops + 1
    /\ last' = Call("getGroupForVertexIndex", <<idx>>,
                    <<getGroupForVertexIndex(flags, groupsCache, pos[cur], cur, idx)>>)
    /\ groupsCache' = CacheAfterGroupFor(flags, groupsCache, pos[cur], cur)
    /\ UNCHANGED <<objects, nextId, isEditMode, isDragging, dragStarted, pos, xform, helpers, flags, selection, baseline, acc, cur, log,
                   net, committed, trip, pick2, weldPending, history, undoRun, prompt>>

NextGroups ==
    \/ \E f \in {"explode"} : SetFlags(f)
    \/ \E idx \in Idx : GetGroupForVertexIndex(idx)

SpecGroups == InitGroups /\ [][NextGroups]_vars

-----------------------------------------------------------------------------
(* PROPERTIES *)

\* C1 (as stated): applySelectionWorldDelta(D), then commit, then
\* applySubEditInverse of the returned action puts every vertex back where it
\* was before D.
C1_RoundTrip == trip.phase = "undone" => pos = trip.pos0
\* C1 (amended): the round trip restores the positions held before D when the
\* accumulated delta was zero at the moment D was applied.
C1_RoundTripFromZero == (trip.phase = "undone" /\ trip.clean) => pos = trip.pos0
C1_Witness ==
    /\ last.op = "applySubEditInverse"
    /\ trip.phase = "undone" /\ trip.clean
    /\ trip.act[1].delta # Zero3
    /\ pos = trip.pos0

\* C2: no two entries of the selection have the same key.
C2_UniqueKeys ==
    \A j, h \in 1 .. Len(selection) : j # h => selection[j].key # selection[h].key
C2_Witness == last.op = "togglePick" /\ last.ret = <<TRUE>> /\ Len(selection) = 2

\* C3: no second vertex-group entry with the index set of an entry already in
\* the selection is ever added (a re-pick of the group removes the entry).
C3_NoTwinGroupEntry ==
    \A j, h \in 1 .. Len(selection) :
        (j # h /\ selection[j].key.tag = "g" /\ selection[h].key.tag = "g")
            => Range(selection[j].indices) # Range(selection[h].indices)

\* C4: two togglePick calls in immediate succession with the same pick leave
\* the set of selection keys as it was; from an empty selection,
\* hasSelection() is false afterwards.
C4_ToggleTwice ==
    pick2.phase = "twice" =>
        /\ KeySet(selection) = pick2.keys0
        /\ (pick2.keys0 = {} => ~hasSelection(selection))
C4_Witness ==
    /\ last.op = "togglePick" /\ last.ret = <<TRUE>>
    /\ pick2.phase = "twice" /\ pick2.keys0 = {}

\* C5 (checkWeld): the target indices of a returned weld info share no index
\* with the selection, entries of every kind counted.
C5_CheckWeldExclusive ==
    (last.op = "checkWeld" /\ last.ret # <<>>)
        => Range(last.ret[1].targetIndices) \cap SelectedSet(selection) = {}
\* C5 (weldFindCandidate): the group under the returned targetKey shares no
\* index with the selection.
C5_FindCandidateExclusive ==
    (last.op = "maybePromptWeld" /\ last.ret # <<>>)
        => Range(MapGet(groupsCache[1].map, last.ret[1].targetKey))
               \cap SelectedSet(selection) = {}

\* the selection centre lies exactly on q
CentreOn(sel, q) == VScale(SelCenter(sel).den, q) = SelCenter(sel).num
\* the last call was the weld search of maybePromptWeld
SearchDeclined == last.op = "maybePromptWeld"
ZeroDist(ret) == ret # <<>> /\ ret[1].dist.sq = <<0, 0>>

\* C6 (as stated): in merge mode, when after a move a vertex outside the
\* selection lies exactly on the selection centre, the weld search returns a
\* candidate at distance 0.
C6_CoincidentVertex ==
    (/\ SearchDeclined
     /\ hasSelection(selection) /\ ~flags.explode
     /\ net[cur].n > 0
     /\ \E i \in Idx \ SelectedSet(selection) : CentreOn(selection, pos[cur][i]))
        => ZeroDist(last.ret)
\* C6 (amended): in merge mode, when a group that holds no selected index has
\* its position exactly on the selection centre, the weld search returns a
\* candidate at distance 0 that targets that position.
C6_CoincidentFreeGroup ==
    (/\ SearchDeclined
     /\ hasSelection(selection) /\ ~flags.explode
     /\ \E g \in Range(buildVertexGroups(pos[cur])) :
            /\ Range(g.indices) \cap SelectedSet(selection) = {}
            /\ CentreOn(selection, pos[cur][g.indices[1]]))
        => (ZeroDist(last.ret) /\ CentreOn(selection, last.ret[1].targetPosLocal))
C6_Witness ==
    /\ SearchDeclined
    /\ hasSelection(selection) /\ ~flags.explode
    /\ \E g \in Range(buildVertexGroups(pos[cur])) :
            /\ Range(g.indices) \cap SelectedSet(selection) = {}
            /\ CentreOn(selection, pos[cur][g.indices[1]])
    /\ ZeroDist(last.ret)

NetZero == \A o \in Objs : net[o].d = Zero3
\* C7: commit returns null when the selection is empty and when the moves
\* since the last returned action have net displacement zero, and then leaves
\* the accumulated delta and the positions as they were.
C7_CommitEmptiness ==
    [][(last'.op = "commit" /\ (~hasSelection(selection) \/ NetZero))
          => (last'.ret = <<>> /\ acc' = acc /\ pos' = pos)]_vars
C7_Witness ==
    /\ last.op = "commit" /\ last.arg = <<cur>> /\ last.ret = <<>>
    /\ hasSelection(selection)
    /\ net[cur].n = 2 /\ net[cur].d = Zero3

NoRepeat(s) == \A j, h \in 1 .. Len(s) : j # h => s[j] # s[h]
\* C8: a returned action holds every selected index exactly once and the
\* accumulated delta of the moment of the call; the accumulated delta is zero
\* afterwards and a commit called next returns null.
C8_SuccessfulCommit ==
    [][(last'.op = "commit" /\ last'.ret # <<>>)
          => /\ Range(last'.ret[1].indices) = SelectedSet(selection)
             /\ NoRepeat(last'.ret[1].indices)
             /\ last'.ret[1].delta = acc
             /\ acc' = Zero3
             /\ commitSelectionDeltaAsAction(selection', acc', last'.arg[1]) = <<>>]_vars
C8_Witness ==
    /\ last.op = "commit" /\ last.ret # <<>>
    /\ Len(selection) = 2
    /\ Range(selection[1].indices) \cap Range(selection[2].indices) # {}
    /\ acc = Zero3

\* C9: the accumulated delta is zero exactly when every selected index is at
\* the position it had at the last returned action (or at the start, or at
\* the last cancelToBaseline).
C9_AccZeroIffCommitted ==
    (acc = Zero3) <=>
        (\A i \in SelectedSet(selection) : pos[cur][i] = committed[cur][i])

\* centroidLocal is the mean of the positions of the entry's indices
CentroidExact(e, pO) ==
    /\ e.centroidLocal.den = Len(e.indices)
    /\ e.centroidLocal.num = SumAt(pO, e.indices)
\* C10: the entry togglePick adds has the mean of its indices' positions as
\* centroid, and every applySelectionWorldDelta and every weldApplySnap keeps
\* every entry's centroid equal to the mean of the positions of its indices
\* on the mesh under edit.
C10_CentroidKept ==
    [][/\ (last'.op = "togglePick" /\ Len(selection') > Len(selection))
            => CentroidExact(selection'[Len(selection')], pos'[cur'])
       /\ last'.op \in {"applySelectionWorldDelta", "onYes"}
            => \A j \in 1 .. Len(selection) :
                   CentroidExact(selection[j], pos[cur])
                       => CentroidExact(selection'[j], pos'[cur])]_vars
\* The part of C10 that holds: the same statement for the moves, and for the
\* snaps whose prompt was opened for the mesh that is under edit when it is
\* answered.
C10_CentroidKeptOnMesh ==
    [][/\ (last'.op = "togglePick" /\ Len(selection') > Len(selection))
            => CentroidExact(selection'[Len(selection')], pos'[cur'])
       /\ (\/ last'.op = "applySelectionWorldDelta"
           \/ last'.op = "onYes" /\ prompt[1].obj = cur)
            => \A j \in 1 .. Len(selection) :
                   CentroidExact(selection[j], pos[cur])
                       => CentroidExact(selection'[j], pos'[cur])]_vars

\* C11: a call of applySelectionWorldDelta on a non-empty selection adds the
\* local delta exactly once to every index that belongs to some entry, also to
\* an index that belongs to several entries, and leaves every other index of
\* the mesh, and every other mesh, where it was.
C11_MoveOnce ==
    [][(last'.op = "applySelectionWorldDelta" /\ hasSelection(selection))
          => LET d == worldDeltaToLocalDelta(xform[cur], last'.arg[1])
             IN  \A o \in Objs : \A i \in Idx :
                    pos'[o][i] = IF o = cur /\ i \in SelectedSet(selection)
                                 THEN VAdd(pos[o][i], d)
                                 ELSE pos[o][i]]_vars
\* two entries share an index, a third index is in the second entry only,
\* and the selection has been moved
C11_Witness ==
    /\ last.op = "applySelectionWorldDelta"
    /\ Len(selection) = 2
    /\ \E i \in Idx : /\ i \in Range(selection[1].indices)
                       /\ i \in Range(selection[2].indices)
                       /\ pos[cur][i] # committed[cur][i]
    /\ \E i \in Idx : /\ i \notin Range(selection[1].indices)
                       /\ i \in Range(selection[2].indices)
                       /\ pos[cur][i] # committed[cur][i]
    /\ \E i \in Idx : /\ i \notin SelectedSet(selection)
                       /\ pos[cur][i] = committed[cur][i]

\* every coordinate of a and b differs by at most GROUP_EPS: a difference of
\* d PosUnit is d * EpsNum / EpsDen of GROUP_EPS
WithinEps(a, b) == \A k \in 1 .. 3 : Abs(a[k] - b[k]) <= EpsDen \div EpsNum
\* n / GROUP_EPS lies in [c - 1/2, c + 1/2): with n = q * EpsDen + r the
\* quotient is q * EpsNum + r * EpsNum / EpsDen
InCell(n, c) ==
    LET r == n % EpsDen
        d == c - (n \div EpsDen) * EpsNum
    IN  /\ (2 * d - 1) * EpsDen <= 2 * r * EpsNum
        /\ 2 * r * EpsNum < (2 * d + 1) * EpsDen
\* the integers n / GROUP_EPS lies next to
CellsNear(n) ==
    {(n \div EpsDen) * EpsNum + ((n % EpsDen) * EpsNum) \div EpsDen + e : e \in {0, 1}}
\* on every axis the coordinates of a and b lie in the same such interval
SameCell(a, b) ==
    \A k \in 1 .. 3 : \E c \in CellsNear(a[k]) : InCell(a[k], c) /\ InCell(b[k], c)
\* n / GROUP_EPS is the lower end c - 1/2 of the interval of c
OnCellEdge(n) ==
    \E c \in CellsNear(n) :
        (2 * (c - (n \div EpsDen) * EpsNum) - 1) * EpsDen = 2 * (n % EpsDen) * EpsNum
\* C12 (as stated): in merge mode two vertices whose coordinates differ by at
\* most GROUP_EPS on all three axes receive the same key from keyForPos and
\* are in the same vertex group.
C12_WithinEpsSameGroup ==
    (last.op = "getGroupForVertexIndex" /\ ~flags.explode)
        => \A j \in Idx :
              WithinEps(pos[cur][last.arg[1]], pos[cur][j])
                  => /\ keyForPos(pos[cur][j]) = keyForPos(pos[cur][last.arg[1]])
                     /\ j \in Range(last.ret[1].indices)
\* C12 (amended): in merge mode two vertices whose coordinates, divided by
\* GROUP_EPS, lie on every axis in the same interval [c - 1/2, c + 1/2) of
\* an integer c receive the same key and are in the same vertex group.
C12_SameCellSameGroup ==
    (last.op = "getGroupForVertexIndex" /\ ~flags.explode)
        => \A j \in Idx :
              SameCell(pos[cur][last.arg[1]], pos[cur][j])
                  => /\ keyForPos(pos[cur][j]) = keyForPos(pos[cur][last.arg[1]])
                     /\ j \in Range(last.ret[1].indices)
\* the vertex asked for lies on the lower end of an interval, on the positive
\* side on one axis and on the negative side on another, and the group
\* returned holds with it a vertex one GROUP_EPS less one PosUnit farther up
C12_Witness ==
    /\ last.op = "getGroupForVertexIndex"
    /\ ~flags.explode
    /\ pos[cur][last.arg[1]][1] > 0 /\ OnCellEdge(pos[cur][last.arg[1]][1])
    /\ pos[cur][last.arg[1]][2] < 0 /\ OnCellEdge(pos[cur][last.arg[1]][2])
    /\ \E j \in Idx : /\ pos[cur][j][1] = pos[cur][last.arg[1]][1] + EpsWidth
                      /\ SameCell(pos[cur][last.arg[1]], pos[cur][j])
                      /\ j \in Range(last.ret[1].indices)

\* C13: in merge mode two vertices whose coordinates differ by more than
\* GROUP_EPS on at least one axis receive different keys from keyForPos, and
\* no vertex group holds both of them.
C13_BeyondEpsOtherGroup ==
    /\ (last.op = "getGroupForVertexIndex" /\ ~flags.explode)
          => \A j \in Idx :
                ~WithinEps(pos[cur][last.arg[1]], pos[cur][j])
                    => /\ keyForPos(pos[cur][j]) # keyForPos(pos[cur][last.arg[1]])
                       /\ j \notin Range(last.ret[1].indices)
    /\ groupsCache # <<>>
          => \A g \in 1 .. Len(groupsCache[1].map) :
                \A i, j \in Range(groupsCache[1].map[g].indices) :
                    WithinEps(pos[groupsCache[1].objId][i], pos[groupsCache[1].objId][j])
\* the vertex asked for and another one are more than GROUP_EPS but less than
\* twice GROUP_EPS apart on one axis, equal on the others, and the group
\* returned holds only one of them
C13_Witness ==
    /\ last.op = "getGroupForVertexIndex"
    /\ ~flags.explode
    /\ groupsCache # <<>>
    /\ \E j \in Idx : \E k \in 1 .. 3 :
          /\ Abs(pos[cur][j][k] - pos[cur][last.arg[1]][k]) * EpsNum > EpsDen
          /\ Abs(pos[cur][j][k] - pos[cur][last.arg[1]][k]) * EpsNum < 2 * EpsDen
          /\ \A h \in (1 .. 3) \ {k} : pos[cur][j][h] = pos[cur][last.arg[1]][h]
          /\ j \notin Range(last.ret[1].indices)

\* C14: in explode mode getGroupForVertexIndex returns for the index i a
\* group that holds i alone, under a key made of i alone that no other index
\* gets, whether or not other vertices lie at the position of i.
C14_ExplodeSingleton ==
    (last.op = "getGroupForVertexIndex" /\ flags.explode)
        => /\ last.ret[1].indices = <<last.arg[1]>>
           /\ last.ret[1].key = [tag |-> "i", ints |-> <<last.arg[1]>>]
           /\ \A j \in Idx \ {last.arg[1]} :
                 getGroupForVertexIndex(flags, groupsCache, pos[cur], cur, j).key
                     # last.ret[1].key
\* explode mode, and another vertex lies exactly where the vertex asked for is
C14_Witness ==
    /\ last.op = "getGroupForVertexIndex"
    /\ flags.explode
    /\ last.ret[1].indices = <<last.arg[1]>>
    /\ \E j \in Idx \ {last.arg[1]} : pos[cur][j] = pos[cur][last.arg[1]]

\* the groups of the map that hold the index i
GroupsHolding(map, i) == {g \in 1 .. Len(map) : i \in Range(map[g].indices)}
\* C15: the map buildVertexGroups builds in merge mode is a partition of the
\* vertex indices: every index is in exactly one group, once, and indices at
\* identical positions are in the same group.
C15_Partition ==
    groupsCache # <<>>
        => LET map == groupsCache[1].map
               p == pos[groupsCache[1].objId]
           IN  /\ map = buildVertexGroups(p)
               /\ \A i \in Idx : Cardinality(GroupsHolding(map, i)) = 1
               /\ \A g \in 1 .. Len(map) : NoRepeat(map[g].indices)
               /\ \A i, j \in Idx :
                     p[i] = p[j] => GroupsHolding(map, i) = GroupsHolding(map, j)
\* vertices 0 and 3 at one position form the group {0, 3} and vertex 5,
\* alone at its position, the group {5}
C15_Witness ==
    /\ groupsCache # <<>>
    /\ pos[cur][0] = pos[cur][3]
    /\ \E g \in 1 .. Len(groupsCache[1].map) : groupsCache[1].map[g].indices = <<0, 3>>
    /\ \E g \in 1 .. Len(groupsCache[1].map) : groupsCache[1].map[g].indices = <<5>>

\* the cache is absent or holds the grouping of the current positions of its mesh
CacheConsistent ==
    groupsCache = <<>>
        \/ groupsCache[1].map = buildVertexGroups(pos[groupsCache[1].objId])
\* the step ran a movement, a weld snap, a replay or a cancel on the mesh o
MutatesMesh(o) ==
    \/ last'.op = "applySelectionWorldDelta" /\ hasSelection(selection) /\ o = cur
    \/ last'.op = "onYes" /\ pos' # pos /\ o = prompt[1].obj
    \/ last'.op \in {"applySubEditForward", "applySubEditInverse"}
          /\ findObjectById(objects, last'.arg[1].id) = <<o>>
    \/ last'.op = "cancelToBaseline" /\ o = cur
\* C16: in every reachable state the groups cache is absent or equal to the
\* grouping computed from the current positions of the mesh it belongs to, and
\* every movement, weld snap, replay of an action and cancelToBaseline on a
\* mesh leaves no cache for that mesh.
C16_CacheConsistent ==
    /\ []CacheConsistent
    /\ [][\A o \in Objs : MutatesMesh(o) => ~CacheHit(groupsCache', o)]_vars
\* a cache rebuilt after a movement: it is present and its mesh is no longer
\* at the positions it started from
C16_Witness ==
    /\ groupsCache # <<>>
    /\ pos[groupsCache[1].objId] # Mesh
    /\ last.op \in {"togglePick", "maybePromptWeld"}
    /\ CacheConsistent

\* C17: a call of maybePromptWeld, with a candidate or without, with a ui to
\* prompt or without, changes neither positions nor centroids nor the
\* accumulated delta, and neither does the onNo of a prompt; the snap comes
\* with onYes alone.
C17_NoAutonomousMerge ==
    [][last'.op \in {"maybePromptWeld", "onNo"}
          => (pos' = pos /\ selection' = selection /\ acc' = acc)]_vars
\* after a move the search found a candidate and there was no ui to show it
C17_Witness ==
    /\ last.op = "maybePromptWeld"
    /\ last.arg = <<"absent">>
    /\ last.ret # <<>>
    /\ net[cur].n > 0

\* The same for the panel of src/editor-core.js: the click that shows the
\* panel, checkWeld, setWeldPending and btn-weld-no change neither positions
\* nor the accumulated delta, the last three no centroid either; the
\* checkWeld at the end of a drag changes neither positions nor centroids;
\* and positions change only in a move, in a replay, an undo or a redo, or
\* in an applyWeld with a pending weld.
C17_PanelNoAutonomousMerge ==
    [][/\ last'.op \in {"togglePick", "checkWeld", "setWeldPending", "weldNo"}
            => (pos' = pos /\ acc' = acc)
       /\ last'.op \in {"checkWeld", "setWeldPending", "weldNo"}
            => selection' = selection
       /\ last'.op = "commit" => (pos' = pos /\ selection' = selection)
       /\ pos' # pos
            => \/ last'.op \in {"applySelectionWorldDelta", "objectChange", "undo",
                                "redo", "applySubEditForward", "applySubEditInverse",
                                "cancelToBaseline"}
               \/ last'.op = "applyWeld" /\ weldPending # <<>>]_vars

\* the step applies a confirmed weld snap
SnapStep ==
    \/ last'.op = "onYes" /\ hasSelection(selection) /\ prompt[1].obj = cur
    \/ last'.op = "applyWeld" /\ weldPending # <<>>
\* the target position of the snap of this step
SnapTarget ==
    IF last'.op = "onYes" THEN prompt[1].targetPosLocal
    ELSE weldPending[1].targetPosition
\* C18: a confirmed weld snap moves every selected index by the vector d from
\* the selection centre (the mean of the entries' centroids) to the target
\* and no other index; afterwards the selection centre is the target, every
\* entry's centroid and the accumulated delta have grown by d, and a commit
\* called next returns an action whose delta holds the snap.
C18_SnapIsMove ==
    [][SnapStep
          => LET d == SnapDelta(selection, SnapTarget)
                 c == SelCenter(selection')
                 r == commitSelectionDeltaAsAction(selection', acc', cur)
             IN  /\ \A i \in Idx :
                       VScale(d.den, VSub(pos'[cur][i], pos[cur][i]))
                           = IF i \in SelectedSet(selection) THEN d.num ELSE Zero3
                 /\ c.num = VScale(c.den, SnapTarget)
                 /\ Len(selection') = Len(selection)
                 /\ \A j \in 1 .. Len(selection) :
                       /\ selection'[j].centroidLocal.den = selection[j].centroidLocal.den
                       /\ VScale(d.den, VSub(selection'[j].centroidLocal.num,
                                             selection[j].centroidLocal.num))
                              = VScale(selection[j].centroidLocal.den, d.num)
                 /\ VScale(d.den, VSub(acc', acc)) = d.num
                 /\ (acc = Zero3 /\ d.num # Zero3)
                       => (r # <<>> /\ VScale(d.den, r[1].delta) = d.num)]_vars

\* squared distance, scaled by c.den^2, from the first vertex of group g to c
GroupDistSq(map, g, p, c) == DistToCenterSq(p[map[g].indices[1]], c)
\* that distance does not exceed the radius
WithinRadius(map, g, p, c) ==
    ~LongerThanLimit(GroupDistSq(map, g, p, c), c.den, DEFAULT_WELD_RADIUS)
\* the free groups no other free group is nearer than
NearestFree(map, sel, p, c) ==
    {g \in FreeGroups(map, sel) :
        \A h \in FreeGroups(map, sel) :
            ~LessBig(GroupDistSq(map, h, p, c), GroupDistSq(map, g, p, c))}
\* C19: in merge mode and with a selection, the weld search returns a group
\* that holds no selected index and whose first vertex is nearest to the
\* selection centre among all such groups, with that vertex's position as
\* target, provided its distance does not exceed the radius; without such a
\* group, or with the nearest one beyond the radius, it returns none.
C19_NearestFreeGroup ==
    [][(last'.op = "maybePromptWeld" /\ hasSelection(selection) /\ ~flags.explode)
          => LET map == buildVertexGroups(pos[cur])
                 c == SelCenter(selection)
                 near == NearestFree(map, selection, pos[cur], c)
             IN  IF near = {} \/ \A g \in near : ~WithinRadius(map, g, pos[cur], c)
                 THEN last'.ret = <<>>
                 ELSE /\ last'.ret # <<>>
                      /\ \E g \in near :
                            /\ last'.ret[1].targetKey = map[g].k
                            /\ last'.ret[1].targetPosLocal = pos[cur][map[g].indices[1]]
                            /\ last'.ret[1].dist.sq = GroupDistSq(map, g, pos[cur], c)]_vars
\* a search that returned as candidate a group at the largest distance of
\* the grid within the radius: one grain farther it would lie beyond it
C19_Witness ==
    /\ last.op = "maybePromptWeld"
    /\ last.ret # <<>>
    /\ last.ret[1].dist = [sq |-> SqBig(Reach), den |-> 1]
    /\ LongerThanLimit(SqBig(Reach + Grain), 1, DEFAULT_WELD_RADIUS)
\* a search that returned none with the nearest free group one grain beyond
\* that distance
C19_JustBeyond ==
    /\ last.op = "maybePromptWeld"
    /\ last.ret = <<>>
    /\ hasSelection(selection) /\ ~flags.explode
    /\ LET map == buildVertexGroups(pos[cur])
           c == SelCenter(selection)
       IN  \E g \in NearestFree(map, selection, pos[cur], c) :
              c.den = 1 /\ GroupDistSq(map, g, pos[cur], c) = SqBig(Reach + Grain)
\* a search that returned a candidate although another group without
\* selected index lay within the radius too, farther away
C19_SeveralInReach ==
    /\ last.op = "maybePromptWeld"
    /\ last.ret # <<>>
    /\ LET map == buildVertexGroups(pos[cur])
           c == SelCenter(selection)
       IN  \E g \in FreeGroups(map, selection) :
              /\ WithinRadius(map, g, pos[cur], c)
              /\ LessBig(last.ret[1].dist.sq, GroupDistSq(map, g, pos[cur], c))

\* C20: the weld search of maybePromptWeld returns none whenever the selection
\* is empty or explode mode is on, wherever the vertices are.
C20_NoSearchWithoutSelection ==
    (last.op = "maybePromptWeld" /\ (~hasSelection(selection) \/ flags.explode))
        => last.ret = <<>>
\* explode mode with a selection for which the search would have found a
\* candidate in merge mode
C20_Witness ==
    /\ last.op = "maybePromptWeld"
    /\ flags.explode
    /\ hasSelection(selection)
    /\ last.ret = <<>>
    /\ weldFindCandidate([flags EXCEPT !.explode = FALSE], selection, <<>>,
                         pos[cur], cur, DEFAULT_WELD_RADIUS) # <<>>
\* The same for checkWeld of src/editor-subcomponents.js.
C20_CheckWeldWithoutSelection ==
    (last.op = "checkWeld" /\ (~hasSelection(selection) \/ flags.explode))
        => last.ret = <<>>

\* C21: cancelToBaseline on the mesh the baseline belongs to makes every
\* position of that mesh equal to the baseline snapshot, whatever was moved,
\* committed or replayed since the snapshot was taken, touches no other mesh
\* and leaves the baseline in place, so that a second call changes nothing.
C21_CancelRestores ==
    [][last'.op = "cancelToBaseline"
          => /\ pos'[cur] = baseline[1].positions
             /\ \A o \in Objs \ {cur} : pos'[o] = pos[o]
             /\ baseline' = baseline
             /\ cancelToBaseline(pos', baseline', cur) = pos']_vars
\* a cancel after a committed move and a further, uncommitted one
C21_Witness ==
    /\ last.op = "cancelToBaseline"
    /\ Len(log) > 0
    /\ log[1].id = cur
    /\ acc # Zero3
    /\ pos[cur] = baseline[1].positions

\* C22: clearSelection empties the selection and takes the baseline anew from
\* the current positions of the mesh, so that a cancelToBaseline called next
\* changes no position.
C22_ClearRecaptures ==
    [][last'.op = "clearSelection"
          => /\ selection' = <<>>
             /\ baseline' = Snapshot(pos, cur)
             /\ cancelToBaseline(pos', baseline', cur) = pos']_vars

\* C23: after togglePick on a mesh while there is no baseline, or while the
\* baseline belongs to another mesh, the baseline has the id of that mesh and
\* a copy of its positions at the moment of the call.
C23_BaselineOnPick ==
    [][(last'.op = "togglePick" /\ (baseline = <<>> \/ baseline[1].id # cur))
          => baseline' = <<[id |-> cur, positions |-> pos[cur]]>>]_vars

\* the delta a replay step adds: action.delta forward, its negation inverse
ReplayDelta(op, a) == IF op = "applySubEditForward" THEN a.delta ELSE VNeg(a.delta)
\* the name of the opposite replay
OppositeReplay(op) ==
    IF op = "applySubEditForward" THEN "applySubEditInverse" ELSE "applySubEditForward"
\* C24: applySubEditForward adds action.delta, and applySubEditInverse the
\* negated action.delta, to the position of every index listed in the action
\* on the mesh the action names, and to no other vertex of any mesh; the
\* opposite replay of the same action, applied next, gives back the positions
\* held before.
C24_ReplayExact ==
    [][(/\ last'.op \in {"applySubEditForward", "applySubEditInverse"}
        /\ findObjectById(objects, last'.arg[1].id) # <<>>)
          => LET a == last'.arg[1]
                 d == ReplayDelta(last'.op, a)
                 back == ReplayDelta(OppositeReplay(last'.op), a)
             IN  /\ \A o \in Objs : \A i \in Idx :
                       pos'[o][i] = IF o = a.id /\ i \in Range(a.indices)
                                    THEN VAdd(pos[o][i], d)
                                    ELSE pos[o][i]
                 /\ applyDeltaLocalToIndices(pos'[a.id], a.indices, back) = pos[a.id]]_vars
\* an action on a group of two indices has been replayed on its mesh, which
\* has other vertices too
C24_Witness ==
    /\ last.op \in {"applySubEditForward", "applySubEditInverse"}
    /\ findObjectById(objects, last.arg[1].id) # <<>>
    /\ Len(last.arg[1].indices) >= 2
    /\ Idx \ Range(last.arg[1].indices) # {}
    /\ last.arg[1].delta # Zero3

\* the entries of one kind, in order
EntriesOfKind(sel, kind) == SelectSeq(sel, LAMBDA s : s.kind = kind)
\* C25: while flags.verts (edges, faces) is false a togglePick call neither
\* adds nor removes a vertex-group (edge, face) entry, whatever the ray hits;
\* with all three flags false it returns false and leaves the selection as
\* it was.
C25_PickGated ==
    [][last'.op = "togglePick"
          => /\ ~flags.verts => EntriesOfKind(selection', "v") = EntriesOfKind(selection, "v")
             /\ ~flags.edges => EntriesOfKind(selection', "e") = EntriesOfKind(selection, "e")
             /\ ~flags.faces => EntriesOfKind(selection', "f") = EntriesOfKind(selection, "f")
             /\ (~flags.verts /\ ~flags.edges /\ ~flags.faces)
                   => (last'.ret = <<FALSE>> /\ selection' = selection)]_vars
\* a ray that hits a vertex, with flags.verts off, toggled an entry of
\* another kind
C25_Witness ==
    /\ last.op = "togglePick"
    /\ last.arg[1].v # <<>>
    /\ ~flags.verts
    /\ last.ret = <<TRUE>>
    /\ hasSelection(selection)
    /\ EntriesOfKind(selection, "v") = <<>>

\* every vertex-group entry was made under the grouping mode now in force:
\* a per-index key in explode mode, a position key in merge mode
EntriesOfCurrentMode ==
    \A j \in 1 .. Len(selection) :
        selection[j].kind = "v"
            => selection[j].key.tag = (IF flags.explode THEN "i" ELSE "g")
\* C26: the explode button of the host switches the flag and leaves the
\* selection empty, and at no time does the selection hold a vertex-group
\* entry that was made under the other grouping mode.
C26_ExplodeClears ==
    /\ []EntriesOfCurrentMode
    /\ [][last'.op = "subExplode"
             => (selection' = <<>> /\ flags'.explode = ~flags.explode)]_vars
\* the explode button was pressed after a click on a vertex group had left a
\* weld pending
C26_Witness ==
    /\ last.op = "subExplode"
    /\ flags.explode
    /\ weldPending # <<>>
    /\ selection = <<>>

\* C27: applySelectionWorldDelta with an empty selection changes neither a
\* position nor the accumulated delta nor the groups cache.
C27_MoveNothingSelected ==
    [][(last'.op = "applySelectionWorldDelta" /\ Len(selection) = 0)
          => /\ pos' = pos
             /\ acc' = acc
             /\ groupsCache' = groupsCache
             /\ selection' = selection]_vars
\* a move was asked for with nothing selected while a groups cache was held
\* and an earlier move was still uncommitted
C27_Witness ==
    /\ last.op = "applySelectionWorldDelta"
    /\ Len(selection) = 0
    /\ groupsCache # <<>>
    /\ acc # Zero3

\* C28: a togglePick call, whether it adds an entry, removes one or misses,
\* leaves every vertex position of every mesh as it was.
C28_PickKeepsPositions ==
    [][last'.op = "togglePick" => pos' = pos]_vars
\* the same ray was picked twice in a row on a mesh whose vertices had been
\* moved off the quantization grid, and the selection is empty again
C28_Witness ==
    /\ last.op = "togglePick"
    /\ pick2.phase = "twice"
    /\ ~hasSelection(selection)
    /\ \E i \in Idx : \E k \in 1 .. 3 :
          pos[cur][i][k] # CellCentre(RoundEps(pos[cur][i][k]))

\* C29: a commit that returns an action leaves the selection as it was (the
\* same entries in the same order with the same indices and centroids) and
\* changes no vertex position.
C29_CommitKeepsSelection ==
    [][(last'.op = "commit" /\ last'.ret # <<>>)
          => (selection' = selection /\ pos' = pos)]_vars
\* an action was returned for a selection of two entries
C29_Witness ==
    /\ last.op = "commit"
    /\ last.ret # <<>>
    /\ Len(selection) = 2
    /\ acc = Zero3

\* What one applySelectionWorldDelta(worldDelta) makes of positions p, selection
\* sel and accumulated delta a of the current mesh, written out from its
\* contract: every selected index once, every entry's centroid, the accumulator.
LocalOf(worldDelta) == VDiv(RotInv(xform[cur].rot, worldDelta), xform[cur].scale)
PositionsMovedOnce(p, sel, worldDelta) ==
    [i \in Idx |->
        IF \E j \in 1 .. Len(sel) : \E k \in 1 .. Len(sel[j].indices) : sel[j].indices[k] = i
        THEN VAdd(p[i], LocalOf(worldDelta))
        ELSE p[i]]
CentroidsMovedOnce(sel, worldDelta) ==
    [j \in 1 .. Len(sel) |->
        [sel[j] EXCEPT !.centroidLocal =
            [num |-> VAdd(@.num, VScale(@.den, LocalOf(worldDelta))), den |-> @.den]]]
\* C30: two consecutive applySelectionWorldDelta calls d1, d2 on a non-empty
\* selection leave the positions, the entries' centroids and the accumulated
\* delta that a single call with d1+d2, made from the state before the first
\* call, would leave.
C30_DeltaAssociative ==
    [][(/\ last.op = "applySelectionWorldDelta"
        /\ trip.phase = "moved"
        /\ last'.op = "applySelectionWorldDelta")
          => LET d12 == VAdd(last.arg[1], last'.arg[1])
             IN  /\ pos' = [trip.pos0 EXCEPT
                              ![cur] = PositionsMovedOnce(@, trip.sel0, d12)]
                 /\ selection' = CentroidsMovedOnce(trip.sel0, d12)
                 /\ acc' = VAdd(trip.acc0, LocalOf(d12))]_vars
\* two consecutive moves that do not cancel, on a selection of two entries
C30_Witness ==
    /\ last.op = "applySelectionWorldDelta"
    /\ net[cur].n >= 2
    /\ Len(selection) = 2
    /\ trip.phase = "moved"
    /\ pos # trip.pos0
    /\ acc # Zero3
    /\ acc # LocalOf(last.arg[1])

\* Translations a mesh of the scene could carry.
ProbeTranslations == {Zero3, <<Step, 0, 0 - Step>>, <<0, 2 * Step, 7 * Grain>>}
\* C31: the local delta applySelectionWorldDelta applies (read off the
\* accumulated delta) is the one worldDeltaToLocalDelta gives for the mesh
\* placed at any other translation, and for a mesh of identity orientation
\* and unit scale the conversion returns the world delta itself.
C31_DeltaIgnoresTranslation ==
    [][(last'.op = "applySelectionWorldDelta" /\ hasSelection(selection))
          => \A T \in ProbeTranslations :
                /\ worldDeltaToLocalDelta([xform[cur] EXCEPT !.t = T], last'.arg[1])
                     = VSub(acc', acc)
                /\ worldDeltaToLocalDelta([Identity EXCEPT !.t = T], last'.arg[1])
                     = last'.arg[1]]_vars
\* a move applied on the translated, turned and scaled mesh
C31_Witness ==
    /\ last.op = "applySelectionWorldDelta"
    /\ hasSelection(selection)
    /\ xform[cur].t # Zero3
    /\ xform[cur].scale # 1
    /\ acc = VDiv(RotInv(xform[cur].rot, last.arg[1]), xform[cur].scale)
    /\ acc # Zero3

\* C32: a public operation called with a missing mesh, with a mesh without
\* position data, or replaying an action whose id resolves to no object,
\* returns without throwing and leaves the engine state as it was.
EngineState == <<pos, flags, selection, baseline, groupsCache, acc>>
C32_NothingToDoNeverRaises ==
    [][(\/ last'.op = "withoutMesh"
        \/ /\ last'.op \in {"applySubEditForward", "applySubEditInverse"}
           /\ findObjectById(objects, last'.arg[1].id) = <<>>)
          => (/\ last'.ret # <<"TypeError">>
              /\ EngineState' = EngineState)]_vars

\* C33: togglePick returns true exactly when the call added or removed one
\* selection entry, and false exactly when the selection is as it was.
C33_ReturnMeansChanged ==
    [][last'.op = "togglePick"
          => /\ last'.ret \in {<<TRUE>>, <<FALSE>>}
             /\ last'.ret = <<TRUE>> <=>
                   (\/ Len(selection') = Len(selection) + 1
                    \/ Len(selection') = Len(selection) - 1)
             /\ last'.ret = <<FALSE>> <=> selection' = selection]_vars
\* a face hit that carries no face left a non-empty selection as it was
C33_Witness ==
    /\ last.op = "togglePick"
    /\ last.ret = <<FALSE>>
    /\ last.arg[1].f = <<-1>>
    /\ flags.faces
    /\ hasSelection(selection)

\* C34: every action commit returns has as delta the displacement of each of
\* its indices since the previous returned action (or the start), whatever
\* picks, clears, moves and snaps came in between.
C34_CommitFaithful ==
    [][(last'.op = "commit" /\ last'.ret # <<>>)
          => LET a == last'.ret[1]
             IN  \A k \in 1 .. Len(a.indices) :
                    VSub(pos[a.id][a.indices[k]], committed[a.id][a.indices[k]])
                        = a.delta]_vars

\* C35: when applySubEditForward, applySubEditInverse or cancelToBaseline
\* changes the position of a selected index, every selection entry whose
\* centroid was the mean of its indices' positions before the call still has
\* the mean of their positions as centroid after it.
C35_CentroidAfterReplay ==
    [][(/\ last'.op \in {"applySubEditForward", "applySubEditInverse",
                         "cancelToBaseline"}
        /\ hasSelection(selection)
        /\ \E i \in SelectedSet(selection) : pos'[cur][i] # pos[cur][i])
          => \A j \in 1 .. Len(selection) :
                 CentroidExact(selection[j], pos[cur])
                     => CentroidExact(selection'[j], pos'[cur])]_vars

\* C36: after btn-weld-yes applied a weld and undo was pressed, every vertex is
\* back at the position it had before the weld; after redo the source indices
\* are on the target position again.
C36_WeldUndone ==
    /\ trip.phase = "weldUndone" => pos = trip.pos0
    /\ trip.phase = "weldRedone"
          => \A i \in Range(trip.act[1].sourceIndices) :
                 pos[cur][i] = trip.act[1].targetPosition

\* C37: a pending weld is one of the current selection: whenever weldPending
\* is set, each of its sourceIndices is an index of an entry of the selection.
C37_PendingWeldOfSelection ==
    weldPending # <<>>
        => Range(weldPending[1].sourceIndices) \subseteq SelectedSet(selection)

\* C38: after a togglePick that leaves the selection non-empty,
\* getSelectionWorldCenter() returns a point, so that the handle is attached
\* and a drag reaches applySelectionWorldDelta.
C38_CenterAfterPick ==
    (last.op = "togglePick" /\ hasSelection(selection))
        => ES_getSelectionWorldCenter(objects, baseline, selection, xform) # <<>>

\* C39: the entries of the selection all belong to the mesh under edit, which
\* is the mesh of the baseline: a non-empty selection has a baseline of the
\* current mesh, an entry is added only by a togglePick, and a step that turns
\* to another mesh keeps none of the entries selected before it.
SelectionOnBaselineMesh ==
    hasSelection(selection) => (baseline # <<>> /\ baseline[1].id = cur)
C39_EntriesOfOneMesh ==
    /\ []SelectionOnBaselineMesh
    /\ [][/\ cur' # cur
                => \A j \in 1 .. Len(selection) :
                       selection[j].key \notin KeySet(selection')
          /\ (\E j \in 1 .. Len(selection') :
                  selection'[j].key \notin KeySet(selection))
                => last'.op = "togglePick"]_vars

\* C40: a handler that adds an action pushes it on the undo stack and empties
\* the redo stack; undo moves the top of the undo stack onto the redo stack
\* and redo moves it back; k undos followed by k redos leave the positions
\* and both stacks as they were before the first undo.
C40_UndoRedoDiscipline ==
    /\ [](undoRun.phase = "redo" /\ undoRun.k = 0 /\ undoRun.at = ops
            => (pos = undoRun.pos0 /\ history = undoRun.hist0))
    /\ [][/\ last'.op = "undo"
                => /\ history.past # <<>>
                   /\ history'.past = SubSeq(history.past, 1, Len(history.past) - 1)
                   /\ history'.future
                        = Append(history.future, history.past[Len(history.past)])
          /\ last'.op = "redo"
                => /\ history.future # <<>>
                   /\ history'.future
                        = SubSeq(history.future, 1, Len(history.future) - 1)
                   /\ history'.past
                        = Append(history.past, history.future[Len(history.future)])
          /\ last'.op \notin {"undo", "redo"}
                => \/ history' = history
                   \/ /\ Len(history'.past) = Len(history.past) + 1
                      /\ SubSeq(history'.past, 1, Len(history.past)) = history.past
                      /\ history'.future = <<>>]_vars
\* two undos of committed edits, then two redos
C40_Witness ==
    /\ last.op = "redo"
    /\ undoRun.phase = "redo" /\ undoRun.k = 0 /\ undoRun.at = ops /\ undoRun.n >= 2
    /\ history.future = <<>>
    /\ \A j \in Len(history.past) - 1 .. Len(history.past) :
           history.past[j].type = "subEdit"
    /\ pos = undoRun.pos0
    /\ pos # [o \in Objs |-> Mesh]

=============================================================================
